---- MODULE Spec2Model ----
(***************************************************************************)
(* The tournament orchestrator of ugi-rankings: the continuous scheduler   *)
(* (runTournament), the match-set runner (playMatchSet), the game driver   *)
(* (runEngineGame) and the persistence of results (recordMatchSetResult,   *)
(* recordGameResult).  Scores are kept doubled (a win is 2, a draw 1) so   *)
(* that they stay integers; ratings are integers as in the engines table.  *)
(***************************************************************************)
EXTENDS Integers, Sequences, FiniteSets, TLC

\* ---------------------------------------------------------------- bounds
NumEngines    == 2    \* rows of the engines table
MaxMatchSets  == 2    \* match sets the scheduler may start in one run
MaxPositions  == 1    \* starting positions of the configured match set
MaxConcurrency == 1   \* largest value of options.concurrency explored
MaxDbFaults   == 1    \* database errors injected in one run
MaxPlies      == 3    \* moves requested in one game
MaxUgiok      == 2    \* chunks with 'ugiok' an engine writes in one handshake
MaxOptions    == 2    \* options of an engine's configuration
MaxPairingEngines == 4 \* engines in the array given to selectOptimalPairing
MaxConfigured == 2    \* match sets of tournament.matchSets
RandomSteps   == 8    \* values of Math.random() explored: r / RandomSteps

\* ------------------------------------------------------ program constants
K == 32               \* the Elo K-factor
DefaultRating == 1500 \* engines.rating DEFAULT
maxMoves == 500       \* hard move cap of runEngineGame

EngineIds == 1..NumEngines
TaskIds   == 1..MaxMatchSets
Colors    == {"white", "black"}

\* ------------------------------------------------------------- variables
VARIABLES
    engines,         \* engines table: id -> [rating, games_played, wins, losses, draws]
    games,           \* games table, in insertion (SERIAL id) order
    ms,              \* the match-set tasks (the async closures of runTournament)
    pc,              \* where runTournament's scheduler loop stands
    shouldContinue,  \* runTournament's flag cleared by handleShutdown
    runningGames,    \* runTournament's Set of tracked match-set promises
    sweep,           \* promises the for-of sweep has still to visit
    concurrency,     \* options.concurrency
    numPositions,    \* matchSet.startingPositions.length of the configured match set
    poolEnding,      \* pool.end() was called by the process signal handler
    exited,          \* process.exit was called
    stats,           \* runTournament's totalGames / wins / draws / errors
    dbFaults,        \* database errors injected so far
    gm,              \* one game of runEngineGame (the game driver)
    rg,              \* one call of recordGameResult outside a match set
    sp               \* one call of selectOptimalPairing

dbVars    == <<engines, games>>
schedVars == <<pc, shouldContinue, runningGames, sweep, stats>>
cfgVars   == <<concurrency, numPositions>>
procVars  == <<poolEnding, exited>>
vars == <<engines, games, ms, pc, shouldContinue, runningGames, sweep,
          concurrency, numPositions, poolEnding, exited, stats, dbFaults, gm, rg, sp>>

\* --------------------------------------------------------------- helpers
Other(color) == IF color = "white" THEN "black" ELSE "white"

RECURSIVE Count(_, _)
\* number of games of a list of GameResults with a result in rs
Count(gs, rs) ==
    IF gs = <<>> THEN 0
    ELSE (IF Head(gs).result \in rs THEN 1 ELSE 0) + Count(Tail(gs), rs)

\* ------------------------------------------------------------------- Elo
\* 10^6 / (1 + 10^(d/400)) rounded to the nearest integer: the expected score of
\* engine 1, in millionths, for d = rating2 - rating1 in -EloRange..EloRange
\* (the entry at index d + EloRange + 1).
ExpectedTable ==
    <<
      990099, 990042, 989986, 989928, 989871, 989813, 989755, 989696, 989637, 989578, 989518, 989459,
      989398, 989338, 989277, 989216, 989154, 989092, 989030, 988967, 988904, 988841, 988777, 988713,
      988649, 988584, 988519, 988453, 988387, 988321, 988255, 988188, 988120, 988052, 987984, 987916,
      987847, 987778, 987708, 987638, 987567, 987496, 987425, 987353, 987281, 987209, 987136, 987063,
      986989, 986915, 986840, 986765, 986690, 986614, 986538, 986461, 986384, 986307, 986229, 986150,
      986071, 985992, 985912, 985832, 985752, 985670, 985589, 985507, 985425, 985342, 985258, 985174,
      985090, 985005, 984920, 984834, 984748, 984661, 984574, 984487, 984398, 984310, 984221, 984131,
      984041, 983950, 983859, 983767, 983675, 983582, 983489, 983395, 983301, 983206, 983111, 983015,
      982919, 982822, 982724, 982626, 982528, 982429, 982329, 982229, 982128, 982027, 981925, 981823,
      981720, 981616, 981512, 981407, 981302, 981196, 981089, 980982, 980874, 980766, 980657, 980548,
      980438, 980327, 980216, 980104, 979991, 979878, 979764, 979650, 979535, 979419, 979303, 979186,
      979068, 978950, 978831, 978711, 978591, 978470, 978348, 978226, 978103, 977979, 977855, 977730,
      977604, 977478, 977351, 977223, 977095, 976965, 976836, 976705, 976574, 976442, 976309, 976175,
      976041, 975906, 975770, 975634, 975497, 975359, 975220, 975080, 974940, 974799, 974657, 974515,
      974371, 974227, 974082, 973937, 973790, 973643, 973495, 973346, 973196, 973045, 972894, 972742,
      972589, 972435, 972280, 972125, 971968, 971811, 971653, 971494, 971334, 971173, 971012, 970849,
      970686, 970522, 970356, 970190, 970023, 969856, 969687, 969517, 969347, 969175, 969003, 968829,
      968655, 968480, 968303, 968126, 967948, 967769, 967589, 967408, 967226, 967043, 966859, 966674,
      966488, 966301, 966113, 965924, 965734, 965543, 965351, 965158, 964964, 964769, 964573, 964376,
      964177, 963978, 963778, 963576, 963374, 963170, 962965, 962759, 962552, 962344, 962135, 961925,
      961713, 961501, 961287, 961073, 960857, 960640, 960421, 960202, 959981, 959760, 959537, 959313,
      959087, 958861, 958633, 958404, 958174, 957943, 957710, 957477, 957242, 957005, 956768, 956529,
      956289, 956048, 955805, 955562, 955316, 955070, 954822, 954573, 954323, 954072, 953819, 953565,
      953309, 953052, 952794, 952534, 952273, 952011, 951747, 951482, 951216, 950948, 950679, 950408,
      950136, 949863, 949588, 949312, 949034, 948755, 948474, 948192, 947909, 947624, 947337, 947049,
      946760, 946469, 946176, 945883, 945587, 945290, 944992, 944692, 944390, 944087, 943782, 943476,
      943168, 942859, 942548, 942236, 941922, 941606, 941289, 940970, 940649, 940327, 940003, 939678,
      939350, 939022, 938691, 938359, 938025, 937690, 937353, 937014, 936673, 936331, 935987, 935641,
      935293, 934944, 934593, 934240, 933886, 933530, 933172, 932812, 932450, 932086, 931721, 931354,
      930985, 930614, 930242, 929867, 929491, 929113, 928733, 928351, 927967, 927581, 927193, 926804,
      926412, 926019, 925624, 925226, 924827, 924426, 924023, 923618, 923211, 922802, 922391, 921977,
      921562, 921145, 920726, 920305, 919882, 919456, 919029, 918600, 918168, 917735, 917299, 916861,
      916421, 915979, 915535, 915089, 914641, 914190, 913738, 913283, 912826, 912367, 911905, 911442,
      910976, 910508, 910038, 909566, 909091, 908614, 908135, 907654, 907170, 906684, 906196, 905705,
      905213, 904718, 904220, 903720, 903218, 902714, 902207, 901698, 901187, 900673, 900157, 899638,
      899117, 898594, 898068, 897540, 897010, 896477, 895941, 895403, 894863, 894320, 893775, 893227,
      892677, 892124, 891569, 891011, 890451, 889888, 889323, 888755, 888184, 887611, 887036, 886458,
      885877, 885294, 884708, 884119, 883528, 882935, 882338, 881739, 881138, 880534, 879927, 879317,
      878705, 878090, 877473, 876852, 876229, 875604, 874975, 874344, 873710, 873074, 872435, 871793,
      871148, 870500, 869850, 869197, 868541, 867882, 867221, 866557, 865890, 865220, 864547, 863871,
      863193, 862512, 861828, 861141, 860451, 859759, 859063, 858365, 857663, 856959, 856252, 855542,
      854829, 854113, 853395, 852673, 851948, 851221, 850490, 849757, 849020, 848281, 847539, 846793,
      846045, 845294, 844540, 843782, 843022, 842259, 841492, 840723, 839951, 839175, 838397, 837615,
      836831, 836043, 835253, 834459, 833662, 832863, 832060, 831254, 830445, 829633, 828818, 827999,
      827178, 826354, 825526, 824695, 823862, 823025, 822185, 821341, 820495, 819646, 818793, 817938,
      817079, 816217, 815352, 814484, 813612, 812738, 811860, 810979, 810095, 809208, 808318, 807424,
      806528, 805628, 804725, 803819, 802909, 801997, 801081, 800162, 799240, 798315, 797386, 796455,
      795520, 794582, 793641, 792696, 791749, 790798, 789844, 788887, 787927, 786963, 785997, 785027,
      784054, 783077, 782098, 781115, 780130, 779141, 778148, 777153, 776155, 775153, 774148, 773140,
      772129, 771114, 770097, 769076, 768052, 767025, 765995, 764961, 763925, 762885, 761842, 760796,
      759747, 758695, 757639, 756581, 755519, 754454, 753386, 752315, 751241, 750163, 749083, 748000,
      746913, 745823, 744730, 743635, 742536, 741434, 740328, 739220, 738109, 736995, 735877, 734757,
      733634, 732507, 731378, 730245, 729110, 727972, 726830, 725686, 724538, 723388, 722235, 721078,
      719919, 718757, 717592, 716424, 715253, 714079, 712902, 711723, 710540, 709355, 708166, 706975,
      705781, 704585, 703385, 702183, 700977, 699769, 698559, 697345, 696129, 694910, 693688, 692463,
      691236, 690006, 688774, 687538, 686300, 685060, 683816, 682570, 681322, 680071, 678817, 677561,
      676302, 675040, 673776, 672510, 671241, 669969, 668695, 667418, 666139, 664858, 663574, 662288,
      660999, 659708, 658415, 657119, 655821, 654520, 653217, 651912, 650605, 649295, 647983, 646669,
      645352, 644034, 642713, 641390, 640065, 638738, 637408, 636077, 634743, 633408, 632070, 630730,
      629389, 628045, 626699, 625351, 624002, 622650, 621297, 619941, 618584, 617225, 615864, 614501,
      613137, 611771, 610402, 609033, 607661, 606288, 604913, 603536, 602158, 600778, 599397, 598014,
      596629, 595243, 593855, 592466, 591076, 589684, 588290, 586895, 585499, 584101, 582702, 581301,
      579900, 578497, 577092, 575687, 574280, 572872, 571463, 570053, 568641, 567229, 565815, 564400,
      562985, 561568, 560150, 558731, 557312, 555891, 554469, 553047, 551624, 550199, 548774, 547349,
      545922, 544495, 543066, 541638, 540208, 538778, 537347, 535916, 534484, 533051, 531618, 530185,
      528751, 527316, 525881, 524445, 523010, 521573, 520137, 518700, 517263, 515825, 514387, 512949,
      511511, 510072, 508634, 507195, 505756, 504317, 502878, 501439, 500000, 498561, 497122, 495683,
      494244, 492805, 491366, 489928, 488489, 487051, 485613, 484175, 482737, 481300, 479863, 478427,
      476990, 475555, 474119, 472684, 471249, 469815, 468382, 466949, 465516, 464084, 462653, 461222,
      459792, 458362, 456934, 455505, 454078, 452651, 451226, 449801, 448376, 446953, 445531, 444109,
      442688, 441269, 439850, 438432, 437015, 435600, 434185, 432771, 431359, 429947, 428537, 427128,
      425720, 424313, 422908, 421503, 420100, 418699, 417298, 415899, 414501, 413105, 411710, 410316,
      408924, 407534, 406145, 404757, 403371, 401986, 400603, 399222, 397842, 396464, 395087, 393712,
      392339, 390967, 389598, 388229, 386863, 385499, 384136, 382775, 381416, 380059, 378703, 377350,
      375998, 374649, 373301, 371955, 370611, 369270, 367930, 366592, 365257, 363923, 362592, 361262,
      359935, 358610, 357287, 355966, 354648, 353331, 352017, 350705, 349395, 348088, 346783, 345480,
      344179, 342881, 341585, 340292, 339001, 337712, 336426, 335142, 333861, 332582, 331305, 330031,
      328759, 327490, 326224, 324960, 323698, 322439, 321183, 319929, 318678, 317430, 316184, 314940,
      313700, 312462, 311226, 309994, 308764, 307537, 306312, 305090, 303871, 302655, 301441, 300231,
      299023, 297817, 296615, 295415, 294219, 293025, 291834, 290645, 289460, 288277, 287098, 285921,
      284747, 283576, 282408, 281243, 280081, 278922, 277765, 276612, 275462, 274314, 273170, 272028,
      270890, 269755, 268622, 267493, 266366, 265243, 264123, 263005, 261891, 260780, 259672, 258566,
      257464, 256365, 255270, 254177, 253087, 252000, 250917, 249837, 248759, 247685, 246614, 245546,
      244481, 243419, 242361, 241305, 240253, 239204, 238158, 237115, 236075, 235039, 234005, 232975,
      231948, 230924, 229903, 228886, 227871, 226860, 225852, 224847, 223845, 222847, 221852, 220859,
      219870, 218885, 217902, 216923, 215946, 214973, 214003, 213037, 212073, 211113, 210156, 209202,
      208251, 207304, 206359, 205418, 204480, 203545, 202614, 201685, 200760, 199838, 198919, 198003,
      197091, 196181, 195275, 194372, 193472, 192576, 191682, 190792, 189905, 189021, 188140, 187262,
      186388, 185516, 184648, 183783, 182921, 182062, 181207, 180354, 179505, 178659, 177815, 176975,
      176138, 175305, 174474, 173646, 172822, 172001, 171182, 170367, 169555, 168746, 167940, 167137,
      166338, 165541, 164747, 163957, 163169, 162385, 161603, 160825, 160049, 159277, 158508, 157741,
      156978, 156218, 155460, 154706, 153955, 153207, 152461, 151719, 150980, 150243, 149510, 148779,
      148052, 147327, 146605, 145887, 145171, 144458, 143748, 143041, 142337, 141635, 140937, 140241,
      139549, 138859, 138172, 137488, 136807, 136129, 135453, 134780, 134110, 133443, 132779, 132118,
      131459, 130803, 130150, 129500, 128852, 128207, 127565, 126926, 126290, 125656, 125025, 124396,
      123771, 123148, 122527, 121910, 121295, 120683, 120073, 119466, 118862, 118261, 117662, 117065,
      116472, 115881, 115292, 114706, 114123, 113542, 112964, 112389, 111816, 111245, 110677, 110112,
      109549, 108989, 108431, 107876, 107323, 106773, 106225, 105680, 105137, 104597, 104059, 103523,
      102990, 102460, 101932, 101406, 100883, 100362, 99843, 99327, 98813, 98302, 97793, 97286,
      96782, 96280, 95780, 95282, 94787, 94295, 93804, 93316, 92830, 92346, 91865, 91386,
      90909, 90434, 89962, 89492, 89024, 88558, 88095, 87633, 87174, 86717, 86262, 85810,
      85359, 84911, 84465, 84021, 83579, 83139, 82701, 82265, 81832, 81400, 80971, 80544,
      80118, 79695, 79274, 78855, 78438, 78023, 77609, 77198, 76789, 76382, 75977, 75574,
      75173, 74774, 74376, 73981, 73588, 73196, 72807, 72419, 72033, 71649, 71267, 70887,
      70509, 70133, 69758, 69386, 69015, 68646, 68279, 67914, 67550, 67188, 66828, 66470,
      66114, 65760, 65407, 65056, 64707, 64359, 64013, 63669, 63327, 62986, 62647, 62310,
      61975, 61641, 61309, 60978, 60650, 60322, 59997, 59673, 59351, 59030, 58711, 58394,
      58078, 57764, 57452, 57141, 56832, 56524, 56218, 55913, 55610, 55308, 55008, 54710,
      54413, 54117, 53824, 53531, 53240, 52951, 52663, 52376, 52091, 51808, 51526, 51245,
      50966, 50688, 50412, 50137, 49864, 49592, 49321, 49052, 48784, 48518, 48253, 47989,
      47727, 47466, 47206, 46948, 46691, 46435, 46181, 45928, 45677, 45427, 45178, 44930,
      44684, 44438, 44195, 43952, 43711, 43471, 43232, 42995, 42758, 42523, 42290, 42057,
      41826, 41596, 41367, 41139, 40913, 40687, 40463, 40240, 40019, 39798, 39579, 39360,
      39143, 38927, 38713, 38499, 38287, 38075, 37865, 37656, 37448, 37241, 37035, 36830,
      36626, 36424, 36222, 36022, 35823, 35624, 35427, 35231, 35036, 34842, 34649, 34457,
      34266, 34076, 33887, 33699, 33512, 33326, 33141, 32957, 32774, 32592, 32411, 32231,
      32052, 31874, 31697, 31520, 31345, 31171, 30997, 30825, 30653, 30483, 30313, 30144,
      29977, 29810, 29644, 29478, 29314, 29151, 28988, 28827, 28666, 28506, 28347, 28189,
      28032, 27875, 27720, 27565, 27411, 27258, 27106, 26955, 26804, 26654, 26505, 26357,
      26210, 26063, 25918, 25773, 25629, 25485, 25343, 25201, 25060, 24920, 24780, 24641,
      24503, 24366, 24230, 24094, 23959, 23825, 23691, 23558, 23426, 23295, 23164, 23035,
      22905, 22777, 22649, 22522, 22396, 22270, 22145, 22021, 21897, 21774, 21652, 21530,
      21409, 21289, 21169, 21050, 20932, 20814, 20697, 20581, 20465, 20350, 20236, 20122,
      20009, 19896, 19784, 19673, 19562, 19452, 19343, 19234, 19126, 19018, 18911, 18804,
      18698, 18593, 18488, 18384, 18280, 18177, 18075, 17973, 17872, 17771, 17671, 17571,
      17472, 17374, 17276, 17178, 17081, 16985, 16889, 16794, 16699, 16605, 16511, 16418,
      16325, 16233, 16141, 16050, 15959, 15869, 15779, 15690, 15602, 15513, 15426, 15339,
      15252, 15166, 15080, 14995, 14910, 14826, 14742, 14658, 14575, 14493, 14411, 14330,
      14248, 14168, 14088, 14008, 13929, 13850, 13771, 13693, 13616, 13539, 13462, 13386,
      13310, 13235, 13160, 13085, 13011, 12937, 12864, 12791, 12719, 12647, 12575, 12504,
      12433, 12362, 12292, 12222, 12153, 12084, 12016, 11948, 11880, 11812, 11745, 11679,
      11613, 11547, 11481, 11416, 11351, 11287, 11223, 11159, 11096, 11033, 10970, 10908,
      10846, 10784, 10723, 10662, 10602, 10541, 10482, 10422, 10363, 10304, 10245, 10187,
      10129, 10072, 10014, 9958, 9901 >>

EloRange == (Len(ExpectedTable) - 1) \div 2
EloScale == 10^6

\* expectedScore1 = 1 / (1 + 10^((engine2Rating - engine1Rating) / 400)), in millionths
expectedScore1(engine1Rating, engine2Rating) ==
    ExpectedTable[(engine2Rating - engine1Rating) + EloRange + 1]

\* engine2 given engine1's expectation
expectedScore2_same(engine1Rating, engine2Rating) ==
    expectedScore1(engine1Rating, engine2Rating)

\* expectedScore2 = 1 - expectedScore1
expectedScore2(engine1Rating, engine2Rating) ==
    EloScale - expectedScore1(engine1Rating, engine2Rating)

\* the change summed over the games instead of taken on the mean score
ratingChange_summed(score2, total, expected) ==
    (K * (score2 * EloScale - 2 * total * expected) + EloScale) \div (2 * EloScale)

\* Math.round(K * (score / total - expected)) for a doubled score and total > 0;
\* Math.round rounds half up, i.e. floor(x + 1/2).
ratingChange(score2, total, expected) ==
    (K * (score2 * EloScale - 2 * total * expected) + total * EloScale)
        \div (2 * total * EloScale)

\* ------------------------------------------------------------ game result
\* A GameStatus as gathered by getGameStatus; "none" is an undefined result token.
GameStatus(inProgress, playerToMove, p1, p2) ==
    [inProgress |-> inProgress, playerToMove |-> playerToMove,
     player1Result |-> p1, player2Result |-> p2]

\* runEngineGame's translation of the final status into the game's result
translateResult(gameStatus, engine1Color) ==
    IF ~gameStatus.inProgress
    THEN IF gameStatus.player1Result = "win" THEN "win"
         ELSE IF gameStatus.player2Result = "win" THEN "loss"
         ELSE "draw"
    ELSE "draw"

\* The GameResult playGame returns: runEngineGame's on a normal end, the
\* 'error' result of playGame's catch when runEngineGame threw.
GameResult(engine1Id, engine2Id, result, engine1Color, pos) ==
    [engine1Id |-> engine1Id, engine2Id |-> engine2Id, result |-> result,
     error |-> (result = "error"),
     engine1Color |-> engine1Color, engine2Color |-> Other(engine1Color),
     startingPosition |-> pos]

\* how one call of runEngineGame may end, as playGame sees it
GameOutcomes ==
    {[threw |-> TRUE,  status |-> GameStatus(TRUE, 1, "none", "none")],
     [threw |-> FALSE, status |-> GameStatus(FALSE, 1, "win", "loss")],
     [threw |-> FALSE, status |-> GameStatus(FALSE, 1, "loss", "win")],
     [threw |-> FALSE, status |-> GameStatus(FALSE, 1, "draw", "draw")]}

playGameResult(out, engine1Color) ==
    IF out.threw THEN "error" ELSE translateResult(out.status, engine1Color)

\* --------------------------------------------------------- match-set task
\* a row of the engines table as addEngine inserts it
EngineRow(rating) ==
    [rating |-> rating, games_played |-> 0, wins |-> 0, losses |-> 0, draws |-> 0]

IdleTask ==
    [phase |-> "idle", engine1Id |-> 0, engine2Id |-> 0, pos |-> 0, slot |-> 0,
     games |-> <<>>, engine1Score |-> 0, engine2Score |-> 0, totalGames |-> 0,
     completed |-> FALSE, idx |-> 0,
     engine1Rating |-> 0, engine2Rating |-> 0, newRating1 |-> 0, newRating2 |-> 0,
     isNaN |-> FALSE, recorded |-> FALSE, failed |-> FALSE,
     begin1 |-> 0, begin2 |-> 0]

\* the task's promise has settled: with null after its catch ran (failed), with
\* the MatchSetResult otherwise; recorded tells whether COMMIT was reached
SettledTask(recorded, failed) ==
    [IdleTask EXCEPT !.phase = "done", !.recorded = recorded, !.failed = failed]

\* a playMatchSet that hands engine1 white in both games of a position
engine1ColorOf_white(slot) == "white"
\* the color engine1 gets in the first and in the second game of a position
engine1ColorOf(slot) == IF slot = 1 THEN "white" ELSE "black"

\* engine1Score / engine2Score after a game with this result (doubled)
addScore1(score, result) ==
    IF result = "win" THEN score + 2 ELSE IF result = "draw" THEN score + 1 ELSE score
addScore2(score, result) ==
    IF result = "loss" THEN score + 2 ELSE IF result = "draw" THEN score + 1 ELSE score

Alive == ~exited
\* started, and not yet through playing and recording
InFlight(t) == ms[t].phase \notin {"idle", "refresh", "done"}
HoldsClient(t) == ms[t].phase \in {"insert", "select2", "update1", "update2", "commit", "refresh"}

\* the task's first step: playMatchSet was called with the pairing
StartedTask(e1, e2) ==
    [IdleTask EXCEPT !.phase = "play", !.engine1Id = e1, !.engine2Id = e2,
                     !.pos = 1, !.slot = 1]

\* playMatchSet: one playGame of the loop returned a GameResult
playGame(t, outcomes) ==
    /\ Alive /\ ms[t].phase = "play" /\ ms[t].pos <= numPositions
    /\ ~poolEnding
    /\ \E out \in outcomes :
         LET color  == engine1ColorOf(ms[t].slot)
             result == playGameResult(out, color)
             g == GameResult(ms[t].engine1Id, ms[t].engine2Id, result, color, ms[t].pos)
         IN ms' = [ms EXCEPT ![t].games = Append(@, g),
                             ![t].engine1Score = addScore1(@, result),
                             ![t].engine2Score = addScore2(@, result),
                             ![t].slot = IF @ = 1 THEN 2 ELSE 1,
                             ![t].pos = IF ms[t].slot = 2 THEN @ + 1 ELSE @]
    /\ UNCHANGED <<dbVars, schedVars, cfgVars, sp, procVars, dbFaults, gm, rg>>

\* playMatchSet: every position was played; the result is returned
playMatchSet_return(t) ==
    /\ Alive /\ ms[t].phase = "play" /\ ms[t].pos > numPositions
    /\ ms' = [ms EXCEPT ![t].totalGames = Len(ms[t].games),
                        ![t].completed = TRUE, ![t].phase = "connect"]
    /\ UNCHANGED <<dbVars, schedVars, cfgVars, sp, procVars, dbFaults, gm, rg>>

\* playMatchSet: playGame threw (its engine lookup failed: the pool is ending,
\* or the database raised an error); the catch returns what was played
playMatchSet_catch(t) ==
    /\ Alive /\ ms[t].phase = "play" /\ ms[t].pos <= numPositions
    /\ \/ poolEnding /\ UNCHANGED dbFaults
       \/ ~poolEnding /\ dbFaults < MaxDbFaults /\ dbFaults' = dbFaults + 1
    /\ ms' = [ms EXCEPT ![t].totalGames = Len(ms[t].games),
                        ![t].completed = FALSE, ![t].phase = "connect"]
    /\ UNCHANGED <<dbVars, schedVars, cfgVars, sp, procVars, gm, rg>>

\* ------------------------------------------------------------- persistence
\* the games row recordGameResult inserts (winner_id 0 stands for NULL)
gameRow(g, rating1Before, rating2Before, t) ==
    LET isDraw   == g.result = "draw"
        winnerId == IF isDraw THEN 0
                    ELSE IF g.result = "win" THEN g.engine1Id ELSE g.engine2Id
    IN [engine1_id |-> g.engine1Id, engine2_id |-> g.engine2Id,
        winner_id |-> winnerId, is_draw |-> isDraw,
        engine1_rating_before |-> rating1Before,
        engine2_rating_before |-> rating2Before,
        error_message |-> g.error,
        engine1_color |-> g.engine1Color, engine2_color |-> g.engine2Color,
        starting_position |-> g.startingPosition, task |-> t]

\* a row lock on engine e is held by the open transaction of a task other than t
RowLocked(e, t) ==
    \E u \in TaskIds \ {t} :
        \/ ms[u].phase \in {"update2", "commit"} /\ ms[u].engine1Id = e
        \/ ms[u].phase = "commit" /\ ms[u].engine2Id = e

\* a catch that logs the failure without counting it
errorsAfterFailure_uncounted == stats
\* the match-set task's catch: errors++ and the promise resolves to null
errorsAfterFailure == [stats EXCEPT !.errors = @ + 1]

\* recordMatchSetResult: pool.connect() and BEGIN
recordMatchSetResult_begin(t) ==
    /\ Alive /\ ms[t].phase = "connect"
    /\ IF poolEnding
       THEN /\ ms' = [ms EXCEPT ![t] = SettledTask(FALSE, TRUE)]
            /\ stats' = errorsAfterFailure
       ELSE /\ ms' = [ms EXCEPT ![t].phase = "insert", ![t].idx = 1,
                                ![t].begin1 = engines[ms[t].engine1Id].rating,
                                ![t].begin2 = engines[ms[t].engine2Id].rating]
            /\ UNCHANGED stats
    /\ UNCHANGED <<dbVars, pc, shouldContinue, runningGames, sweep, cfgVars, sp,
                   procVars, dbFaults, gm, rg>>

\* recordGameResult called with shouldUpdateRatings left at true: every
\* non-error game moves the ratings when its row is inserted
recordMatchSetResult_game_rated(t) ==
    /\ Alive /\ ms[t].phase = "insert" /\ ms[t].idx <= Len(ms[t].games)
    /\ ~poolEnding
    /\ LET g  == ms[t].games[ms[t].idx]
           r1 == engines[g.engine1Id].rating
           r2 == engines[g.engine2Id].rating
           s1 == IF g.result = "draw" THEN 1 ELSE 2
       IN /\ games' = Append(games, gameRow(g, r1, r2, t))
          /\ engines' = IF g.result = "error" THEN engines
                        ELSE [engines EXCEPT
                                ![g.engine1Id].rating = r1 + ratingChange(s1, 1, expectedScore1(r1, r2)),
                                ![g.engine2Id].rating = r2 + ratingChange(2 - s1, 1, expectedScore1(r2, r1))]
    /\ ms' = [ms EXCEPT ![t].idx = @ + 1]
    /\ UNCHANGED <<pc, shouldContinue, runningGames, sweep, stats, cfgVars, sp,
                   procVars, dbFaults, gm, rg>>

\* recordMatchSetResult: recordGameResult(pool, game, false) for the next game.
\* The reads and the INSERT go through the pool, not through the transaction's
\* client, so the row is committed on its own.
recordMatchSetResult_game(t) ==
    /\ Alive /\ ms[t].phase = "insert" /\ ms[t].idx <= Len(ms[t].games)
    /\ IF poolEnding
       THEN /\ ms' = [ms EXCEPT ![t] = SettledTask(FALSE, TRUE)]
            /\ stats' = errorsAfterFailure
            /\ UNCHANGED games
       ELSE /\ LET g == ms[t].games[ms[t].idx]
               IN games' = Append(games, gameRow(g, engines[g.engine1Id].rating,
                                                 engines[g.engine2Id].rating, t))
            /\ ms' = [ms EXCEPT ![t].idx = @ + 1]
            /\ UNCHANGED stats
    /\ UNCHANGED <<engines, pc, shouldContinue, runningGames, sweep, cfgVars, sp,
                   procVars, dbFaults, gm, rg>>

\* recordMatchSetResult: SELECT rating of engine1 on the transaction's client
recordMatchSetResult_select1(t) ==
    /\ Alive /\ ms[t].phase = "insert" /\ ms[t].idx > Len(ms[t].games)
    /\ ms' = [ms EXCEPT ![t].engine1Rating = engines[ms[t].engine1Id].rating,
                        ![t].phase = "select2"]
    /\ UNCHANGED <<dbVars, schedVars, cfgVars, sp, procVars, dbFaults, gm, rg>>

\* recordMatchSetResult: SELECT rating of engine2, then the Elo computation.
\* With totalGames = 0 the actual scores are 0/0 = NaN and so are both new ratings.
recordMatchSetResult_select2(t) ==
    /\ Alive /\ ms[t].phase = "select2"
    /\ LET r1 == ms[t].engine1Rating
           r2 == engines[ms[t].engine2Id].rating
           n  == ms[t].totalGames
       IN ms' = [ms EXCEPT
                   ![t].engine2Rating = r2,
                   ![t].isNaN = (n = 0),
                   ![t].newRating1 = IF n = 0 THEN 0
                       ELSE r1 + ratingChange(ms[t].engine1Score, n, expectedScore1(r1, r2)),
                   ![t].newRating2 = IF n = 0 THEN 0
                       ELSE r2 + ratingChange(ms[t].engine2Score, n, expectedScore2(r1, r2)),
                   ![t].phase = "update1"]
    /\ UNCHANGED <<dbVars, schedVars, cfgVars, sp, procVars, dbFaults, gm, rg>>

\* recordMatchSetResult: UPDATE engines SET rating = newRating1.  A NaN rating is
\* rejected by the INTEGER column, which throws into the catch (ROLLBACK).
recordMatchSetResult_update1(t) ==
    /\ Alive /\ ms[t].phase = "update1"
    /\ IF ms[t].isNaN
       THEN /\ ms' = [ms EXCEPT ![t] = SettledTask(FALSE, TRUE)]
            /\ stats' = errorsAfterFailure
       ELSE /\ ~RowLocked(ms[t].engine1Id, t)
            /\ ms' = [ms EXCEPT ![t].phase = "update2"]
            /\ UNCHANGED stats
    /\ UNCHANGED <<dbVars, pc, shouldContinue, runningGames, sweep, cfgVars, sp,
                   procVars, dbFaults, gm, rg>>

\* recordMatchSetResult: UPDATE engines SET rating = newRating2
recordMatchSetResult_update2(t) ==
    /\ Alive /\ ms[t].phase = "update2"
    /\ ~RowLocked(ms[t].engine2Id, t)
    /\ ms' = [ms EXCEPT ![t].phase = "commit"]
    /\ UNCHANGED <<dbVars, schedVars, cfgVars, sp, procVars, dbFaults, gm, rg>>

\* runTournament's tally after a recorded match set (the locals wins and draws
\* shadow the outer counters, which stay 0)
tally(r) ==
    [stats EXCEPT
       !.totalGames = @ + r.totalGames + Count(r.games, {"win", "loss"})
                        + Count(r.games, {"draw"}),
       !.errors = @ + Count(r.games, {"error"})]

\* recordMatchSetResult: COMMIT and release; then the task tallies the result
\* and issues the query that refreshes runTournament's engines array
recordMatchSetResult_commit(t) ==
    /\ Alive /\ ms[t].phase = "commit"
    /\ engines' = [engines EXCEPT ![ms[t].engine1Id].rating = ms[t].newRating1,
                                  ![ms[t].engine2Id].rating = ms[t].newRating2]
    /\ IF poolEnding
       THEN /\ ms' = [ms EXCEPT ![t] = SettledTask(TRUE, TRUE)]
            /\ stats' = [tally(ms[t]) EXCEPT !.errors = @ + 1]
       ELSE /\ ms' = [ms EXCEPT ![t].phase = "refresh", ![t].recorded = TRUE]
            /\ stats' = tally(ms[t])
    /\ UNCHANGED <<games, pc, shouldContinue, runningGames, sweep, cfgVars, sp,
                   procVars, dbFaults, gm, rg>>

\* the match-set task: the engines query returned; the task's promise resolves
gamePromise_return(t) ==
    /\ Alive /\ ms[t].phase = "refresh"
    /\ ms' = [ms EXCEPT ![t] = SettledTask(TRUE, FALSE)]
    /\ UNCHANGED <<dbVars, schedVars, cfgVars, sp, procVars, dbFaults, gm, rg>>

\* a ROLLBACK that takes back the game rows of the match set
recordMatchSetResult_catch_undo(t) ==
    /\ Alive /\ ms[t].phase \in {"insert", "select2", "update1", "update2", "commit"}
    /\ dbFaults < MaxDbFaults
    /\ dbFaults' = dbFaults + 1
    /\ ms' = [ms EXCEPT ![t] = SettledTask(FALSE, TRUE)]
    /\ stats' = errorsAfterFailure
    /\ games' = SelectSeq(games, LAMBDA row : row.task # t)
    /\ UNCHANGED <<engines, pc, shouldContinue, runningGames, sweep, cfgVars, sp,
                   procVars, gm, rg>>

\* recordMatchSetResult: a query of the open transaction raises a database
\* error; the catch sends ROLLBACK, the client is released, the task fails
recordMatchSetResult_catch(t) ==
    /\ Alive /\ ms[t].phase \in {"insert", "select2", "update1", "update2", "commit"}
    /\ dbFaults < MaxDbFaults
    /\ dbFaults' = dbFaults + 1
    /\ ms' = [ms EXCEPT ![t] = SettledTask(FALSE, TRUE)]
    /\ stats' = errorsAfterFailure
    /\ UNCHANGED <<dbVars, pc, shouldContinue, runningGames, sweep, cfgVars, sp,
                   procVars, gm, rg>>

\* ---------------------------------------------------------- per-game path
\* One call recordGameResult(pool, gameResult, shouldUpdateRatings) made on its
\* own, as the play-game command makes it after playGame; every query goes
\* through the pool and is committed by itself.
\* pcr: "idle", "select", "insert", "ratings", "counters", "done", "failed".
\* before / rowsBefore: the engines table and the number of game rows when the
\* call was made.
NoCall ==
    [pcr |-> "idle", game |-> GameResult(0, 0, "draw", "white", 0),
     shouldUpdateRatings |-> FALSE, rating1Before |-> 0, rating2Before |-> 0,
     error |-> "", before |-> <<>>, rowsBefore |-> 0]

\* the ids a caller may pass: the engines of the table and one id that is in no row
CallIds == EngineIds \cup {NumEngines + 1}

NewCall(g, shouldUpdateRatings) ==
    [NoCall EXCEPT !.pcr = "select", !.game = g,
                   !.shouldUpdateRatings = shouldUpdateRatings,
                   !.before = engines, !.rowsBefore = Len(games)]

\* the row is inserted before the existence check is made
recordGameResult_select_late ==
    /\ rg.pcr = "select"
    /\ IF rg.game.engine1Id \notin DOMAIN engines \/ rg.game.engine2Id \notin DOMAIN engines
       THEN /\ rg' = [rg EXCEPT !.pcr = "failed", !.error = "One or both engines not found"]
            /\ games' = Append(games, gameRow(rg.game, 0, 0, 0))
       ELSE /\ rg' = [rg EXCEPT !.pcr = "insert",
                                !.rating1Before = engines[rg.game.engine1Id].rating,
                                !.rating2Before = engines[rg.game.engine2Id].rating]
            /\ UNCHANGED games
    /\ UNCHANGED <<engines, ms, schedVars, cfgVars, sp, procVars, dbFaults, gm>>

\* recordGameResult: the two SELECT rating queries and the existence check
recordGameResult_select ==
    /\ rg.pcr = "select"
    /\ IF rg.game.engine1Id \notin DOMAIN engines \/ rg.game.engine2Id \notin DOMAIN engines
       THEN rg' = [rg EXCEPT !.pcr = "failed", !.error = "One or both engines not found"]
       ELSE rg' = [rg EXCEPT !.pcr = "insert",
                             !.rating1Before = engines[rg.game.engine1Id].rating,
                             !.rating2Before = engines[rg.game.engine2Id].rating]
    /\ UNCHANGED <<dbVars, ms, schedVars, cfgVars, sp, procVars, dbFaults, gm>>

\* recordGameResult: INSERT INTO games, with updateRatings called for every game
\* that is not an error
recordGameResult_insert_always ==
    /\ rg.pcr = "insert"
    /\ games' = Append(games, gameRow(rg.game, rg.rating1Before, rg.rating2Before, 0))
    /\ rg' = [rg EXCEPT !.pcr = IF rg.game.result # "error" THEN "ratings" ELSE "done"]
    /\ UNCHANGED <<engines, ms, schedVars, cfgVars, sp, procVars, dbFaults, gm>>

\* recordGameResult: INSERT INTO games, then the test that guards updateRatings
recordGameResult_insert ==
    /\ rg.pcr = "insert"
    /\ games' = Append(games, gameRow(rg.game, rg.rating1Before, rg.rating2Before, 0))
    /\ rg' = [rg EXCEPT !.pcr = IF rg.shouldUpdateRatings /\ rg.game.result # "error"
                                THEN "ratings" ELSE "done"]
    /\ UNCHANGED <<engines, ms, schedVars, cfgVars, sp, procVars, dbFaults, gm>>

\* updateRatings(pool, engine1Id, engine2Id, isDraw): the ratings are read, and
\* engine1 is scored 1 and engine2 0 unless the game is a draw; both UPDATEs
\* of rating and games_played
updateRatings_ratings ==
    /\ rg.pcr = "ratings"
    /\ LET engine1Id == rg.game.engine1Id
           engine2Id == rg.game.engine2Id
           isDraw  == rg.game.result = "draw"
           rating1 == engines[engine1Id].rating
           rating2 == engines[engine2Id].rating
           score1  == IF isDraw THEN 1 ELSE 2
           score2  == IF isDraw THEN 1 ELSE 0
           newRating1 == rating1 + ratingChange(score1, 1, expectedScore1(rating1, rating2))
           newRating2 == rating2 + ratingChange(score2, 1, expectedScore1(rating2, rating1))
           after1 == [engines EXCEPT ![engine1Id].rating = newRating1,
                                     ![engine1Id].games_played = @ + 1]
       IN engines' = [after1 EXCEPT ![engine2Id].rating = newRating2,
                                    ![engine2Id].games_played = @ + 1]
    /\ rg' = [rg EXCEPT !.pcr = "counters"]
    /\ UNCHANGED <<games, ms, schedVars, cfgVars, sp, procVars, dbFaults, gm>>

\* updateRatings: draws + 1 for both on a draw, else wins + 1 for engine1 and
\* losses + 1 for engine2
updateRatings_counters ==
    /\ rg.pcr = "counters"
    /\ LET engine1Id == rg.game.engine1Id
           engine2Id == rg.game.engine2Id
       IN IF rg.game.result = "draw"
          THEN engines' = [e \in DOMAIN engines |->
                             IF e = engine1Id \/ e = engine2Id
                             THEN [engines[e] EXCEPT !.draws = @ + 1] ELSE engines[e]]
          ELSE LET won == [engines EXCEPT ![engine1Id].wins = @ + 1]
               IN engines' = [won EXCEPT ![engine2Id].losses = @ + 1]
    /\ rg' = [rg EXCEPT !.pcr = "done"]
    /\ UNCHANGED <<games, ms, schedVars, cfgVars, sp, procVars, dbFaults, gm>>

\* play-game: playGame(engine1, engine2, timeControl) returned a GameResult
\* (engine1 white, no starting position) and recordGameResult(pool, result) is
\* called with shouldUpdateRatings at its default, true
playGame_command ==
    /\ rg.pcr = "idle"
    /\ \E e1 \in EngineIds, e2 \in EngineIds, out \in GameOutcomes :
         rg' = NewCall(GameResult(e1, e2, playGameResult(out, "white"), "white", 0), TRUE)
    /\ UNCHANGED <<dbVars, ms, schedVars, cfgVars, sp, procVars, dbFaults, gm>>

\* load-config --replace: loadEnginesFromConfig finds the engine of a config
\* entry in the table and sets its rating to the entry's initialRating
ConfigRatings == {DefaultRating}

loadEnginesFromConfig_replace ==
    /\ \E e \in EngineIds, initialRating \in ConfigRatings :
         engines' = [engines EXCEPT ![e].rating = initialRating]
    /\ UNCHANGED <<games, ms, schedVars, cfgVars, sp, procVars, dbFaults, gm, rg>>

\* --------------------------------------------------------------- scheduler
\* isPromiseSettled: the race's result is compared with a Symbol('timeout')
\* made anew for the comparison; two symbols are never the same value.
raceResult(t) == IF ms[t].phase = "done" THEN "value" ELSE "Symbol(timeout)#1"
isPromiseSettled(t) == raceResult(t) # "Symbol(timeout)#2"

\* the inner loop started at j = i
pairings_self == {p \in EngineIds \X EngineIds : p[1] <= p[2]}

\* the pairs selectOptimalPairing enumerates (i < j in the engines array)
pairings == {p \in EngineIds \X EngineIds : p[1] < p[2]}

ClientOut == (\E t \in TaskIds : HoldsClient(t)) \/ pc \in {"select1", "select2"}

\* runTournament: the inner while test with runningGames = running; the scheduler
\* next waits in selectOptimalPairing or in the 1 s delay
fillTest(running) ==
    IF Cardinality(running) < concurrency /\ shouldContinue THEN "select1" ELSE "sleep"

\* runTournament: the outer while test; the scheduler next waits in the sweep's
\* first isPromiseSettled, past an empty sweep, or in Promise.all
loopTest ==
    IF shouldContinue
    THEN (IF runningGames = {} THEN fillTest(runningGames) ELSE "sweep")
    ELSE "drain"

\* the model starts at most MaxMatchSets match sets
MayWait(at, tasks) == at = "select1" => \E t \in TaskIds : tasks[t].phase = "idle"

\* runTournament: the 1 s delay at the end of the outer loop body is over
runTournament_sleep ==
    /\ Alive /\ pc = "sleep"
    /\ pc' = loopTest
    /\ MayWait(pc', ms)
    /\ sweep' = IF pc' = "sweep" THEN runningGames ELSE sweep
    /\ UNCHANGED <<dbVars, ms, shouldContinue, runningGames, stats, cfgVars, sp,
                   procVars, dbFaults, gm, rg>>

\* runTournament: one iteration of "for (const gamePromise of runningGames)":
\* isPromiseSettled returned for the next promise of the set
runTournament_sweep ==
    /\ Alive /\ pc = "sweep"
    /\ LET p == CHOOSE q \in sweep : \A r \in sweep : q <= r
       IN /\ runningGames' = IF isPromiseSettled(p) THEN runningGames \ {p}
                             ELSE runningGames
          /\ sweep' = sweep \ {p}
          /\ pc' = IF sweep' = {} THEN fillTest(runningGames') ELSE "sweep"
    /\ MayWait(pc', ms)
    /\ UNCHANGED <<dbVars, ms, shouldContinue, stats, cfgVars, sp, procVars,
                   dbFaults, gm, rg>>

\* selectOptimalPairing: getRecentGames returned and getPairGameCounts is
\* called; on an ending pool it rejects, runTournament throws and the
\* run-tournament command exits with code 1
selectOptimalPairing_counts ==
    /\ Alive /\ pc = "select1"
    /\ IF poolEnding
       THEN pc' = "failed" /\ exited' = TRUE
       ELSE pc' = "select2" /\ UNCHANGED exited
    /\ UNCHANGED <<dbVars, ms, shouldContinue, runningGames, sweep, stats,
                   cfgVars, sp, poolEnding, dbFaults, gm, rg>>

\* selectOptimalPairing returned a pairing; the match-set task is started and
\* added to runningGames, and the inner while test is made again
runTournament_start ==
    /\ Alive /\ pc = "select2"
    /\ \E p \in pairings :
         LET t == CHOOSE u \in TaskIds :
                     /\ ms[u].phase = "idle"
                     /\ \A v \in TaskIds : ms[v].phase = "idle" => u <= v
         IN /\ ms' = [ms EXCEPT ![t] = StartedTask(p[1], p[2])]
            /\ runningGames' = runningGames \cup {t}
    /\ pc' = fillTest(runningGames')
    /\ MayWait(pc', ms')
    /\ UNCHANGED <<dbVars, shouldContinue, sweep, stats, cfgVars, sp, procVars,
                   dbFaults, gm, rg>>

\* runTournament: await Promise.all(runningGames), then return
runTournament_drain ==
    /\ Alive /\ pc = "drain"
    /\ \A t \in runningGames : ms[t].phase = "done"
    /\ pc' = "returned"
    /\ UNCHANGED <<dbVars, ms, shouldContinue, runningGames, sweep, stats,
                   cfgVars, sp, procVars, dbFaults, gm, rg>>

\* SIGINT or SIGTERM: the process-level handler calls pool.end() and
\* runTournament's handleShutdown clears shouldContinue
signal ==
    /\ Alive /\ ~poolEnding
    /\ pc \notin {"off", "returned", "failed"}
    /\ poolEnding' = TRUE
    /\ shouldContinue' = FALSE
    /\ UNCHANGED <<dbVars, ms, pc, runningGames, sweep, stats, cfgVars, sp,
                   exited, dbFaults, gm, rg>>

\* the process-level handler: pool.end() resolved (every client is back in
\* the pool) and process.exit(0) is called
processExit ==
    /\ Alive /\ poolEnding /\ ~ClientOut
    /\ exited' = TRUE
    /\ UNCHANGED <<dbVars, ms, schedVars, cfgVars, sp, poolEnding, dbFaults, gm, rg>>

\* -------------------------------------------------------------- game driver
\* One playGame call: runEngineGame between two engine processes, and the
\* catch of playGame that turns a throw into the result 'error'.
\* proc1 / proc2: "none" (never spawned), "alive", "dead".
\* An output line of an engine, as the stdout handlers tell lines apart: kind
\* is the keyword the line's text holds, hash is set when the line begins
\* with '#'.
ProtocolLine(kind) ==
    [hash |-> FALSE, kind |-> kind, state |-> "none", n |-> 0, result |-> "none"]
GameStatusLine(state, n) == [ProtocolLine("gamestatus") EXCEPT !.state = state, !.n = n]
PlayerLine(n, result)    == [ProtocolLine("player") EXCEPT !.n = n, !.result = result]
\* the line `status <state> playertomove <n>` of the mock engine
StatusLine(state, n)     == [ProtocolLine("status") EXCEPT !.state = state, !.n = n]
\* the same text behind a '#'
Comment(line) == [line EXCEPT !.hash = TRUE]

\* output.includes(keyword): the keyword is somewhere in the chunk
includes(output, kind) == \E i \in DOMAIN output : output[i].kind = kind
\* line.startsWith(keyword)
startsWith(line, kind) == ~line.hash /\ line.kind = kind

\* what engine1 may answer to `status` (the empty answer: nothing within 5 s)
StatusReplies ==
    {<<>>,
     <<GameStatusLine("inprogress", 1)>>,
     <<GameStatusLine("inprogress", 2)>>,
     <<GameStatusLine("finished", 1), PlayerLine(1, "win"), PlayerLine(2, "loss")>>,
     <<GameStatusLine("finished", 1), PlayerLine(1, "loss"), PlayerLine(2, "win")>>,
     <<GameStatusLine("finished", 1), PlayerLine(1, "draw"), PlayerLine(2, "draw")>>,
     <<GameStatusLine("finished", 1), PlayerLine(1, "win"), PlayerLine(2, "win")>>,
     <<StatusLine("inprogress", 2)>>,
     <<StatusLine("finished", 0), PlayerLine(1, "win"), PlayerLine(2, "loss")>>,
     <<Comment(GameStatusLine("finished", 2))>>}

InitialStatus == GameStatus(TRUE, 1, "none", "none")

RECURSIVE parseStatus(_, _)
\* getGameStatus's onData loop over the lines of the answer
parseStatus(lines, st) ==
    IF lines = <<>> THEN st
    ELSE LET l == Head(lines)
             st1 == IF l.kind = "gamestatus"
                    THEN [st EXCEPT !.inProgress = (l.state = "inprogress"),
                                    !.playerToMove = l.n]
                    ELSE IF l.kind = "player" /\ l.n = 1
                    THEN [st EXCEPT !.player1Result = l.result]
                    ELSE IF l.kind = "player" /\ l.n = 2
                    THEN [st EXCEPT !.player2Result = l.result]
                    ELSE st
         IN parseStatus(Tail(lines), st1)

\* getGameStatus: the status gathered when both results are in or at the timeout
getGameStatus(lines) == parseStatus(lines, InitialStatus)

\* what the engine asked to move may write before the 30 s deadline
MoveReplies ==
    {<<ProtocolLine("bestmove")>>,
     <<ProtocolLine("info"), ProtocolLine("bestmove")>>,
     <<Comment(ProtocolLine("bestmove"))>>,
     <<ProtocolLine("info")>>}

\* getEngineMove's onData: a line that starts with 'bestmove ' yields the move
getEngineMove(lines) == \E i \in DOMAIN lines : startsWith(lines[i], "bestmove")

\* runEngineGame: the engine asked for the next move
currentEngine(currentPlayer, engine1Color) ==
    IF currentPlayer = 1
    THEN (IF engine1Color = "white" THEN 1 ELSE 2)
    ELSE (IF engine1Color = "black" THEN 1 ELSE 2)

\* runEngineGame's finally: kill every process of engineProcesses
killed(proc, tracked) == IF tracked /\ proc = "alive" THEN "dead" ELSE proc

\* the game ends: the finally block runs and playGame returns the result
GameOver(result) ==
    [gm EXCEPT !.pcg = "done", !.result = result,
               !.proc1 = killed(gm.proc1, gm.tracked),
               !.proc2 = killed(gm.proc2, gm.tracked)]

\* runEngineGame threw: playGame's catch returns 'error' with the message
GameError(message) == [GameOver("error") EXCEPT !.error = message]

StartOutcomes == {"readyok", "timeout", "exit", "error"}

\* startEngine's process after the attempt: killed at the timeout, gone after an
\* exit, never there after a spawn error
procAfterStart(outcome) ==
    IF outcome = "readyok" THEN "alive" ELSE IF outcome = "error" THEN "none" ELSE "dead"

\* the message of startEngine's rejection
startError(outcome) ==
    IF outcome = "timeout" THEN "failed to start within timeout"
    ELSE IF outcome = "exit" THEN "exited with code"
    ELSE "Failed to start engine"

\* the chunks an engine may write during the handshake
HandshakeChunks ==
    {<<ProtocolLine("id"), ProtocolLine("ugiok")>>,
     <<ProtocolLine("readyok")>>,
     <<ProtocolLine("ugiok"), ProtocolLine("readyok")>>,
     <<Comment(ProtocolLine("readyok"))>>,
     <<Comment(ProtocolLine("ugiok"))>>,
     <<ProtocolLine("id")>>}

\* number of entries of a sequence equal to x
Occurrences(seq, x) == Cardinality({i \in DOMAIN seq : seq[i] = x})

\* the session being started while pcg is "start<i>" or "hs<i>"
starting == IF gm.pcg \in {"start1", "hs1"} THEN 1 ELSE 2

\* spawn of engine i: the stdout, error and exit handlers are attached and
\* `ugi` is written; a spawn that fails emits 'error' and startEngine rejects
spawn(i) ==
    \E o \in StartOutcomes \ {"timeout", "exit"} :
       gm' = IF o = "readyok"
             THEN [gm EXCEPT !.pcg = IF i = 1 THEN "hs1" ELSE "hs2",
                             !.proc1 = IF i = 1 THEN "alive" ELSE @,
                             !.proc2 = IF i = 2 THEN "alive" ELSE @,
                             !.written[i] = <<"ugi">>]
             ELSE [GameError(startError(o)) EXCEPT !.written[i] = <<"ugi">>]

\* runEngineGame: startEngine(engine1Config) is called
startEngine1 ==
    /\ gm.pcg = "start1"
    /\ spawn(1)
    /\ UNCHANGED <<dbVars, ms, schedVars, cfgVars, sp, procVars, dbFaults, rg>>

\* runEngineGame: startEngine(engine2Config) is called
startEngine2 ==
    /\ gm.pcg = "start2"
    /\ spawn(2)
    /\ UNCHANGED <<dbVars, ms, schedVars, cfgVars, sp, procVars, dbFaults, rg>>

\* the stdout handler's answer to 'ugiok': isready first, the options after it
handshakeWrites_isreadyFirst(options) ==
    <<"isready">> \o [k \in 1..options |-> "setoption"]

\* the stdout handler's answer to 'ugiok': one setoption per option, then isready
handshakeWrites(options) ==
    [k \in 1..options |-> "setoption"] \o <<"isready">>

\* startEngine resolved: runEngineGame goes on with the second engine, or, both
\* started, puts the two processes in engineProcesses and replays the starting
\* moves to both
started(i) ==
    IF i = 1
    THEN [gm EXCEPT !.pcg = "start2", !.isReady[1] = TRUE]
    ELSE [gm EXCEPT !.pcg = "loop", !.isReady[2] = TRUE, !.tracked = TRUE,
                    !.moveCount = gm.prefix]

\* startEngine's stdout handler: a chunk of the engine being started arrives
startEngine_onData ==
    /\ gm.pcg \in {"hs1", "hs2"}
    /\ \E output \in HandshakeChunks :
         /\ includes(output, "ugiok")
              => Occurrences(gm.written[starting], "isready") < MaxUgiok
         /\ gm' = IF includes(output, "ugiok")
                  THEN [gm EXCEPT !.written[starting] = @ \o handshakeWrites(gm.options),
                                  !.chunk = output]
                  ELSE IF includes(output, "readyok")
                  THEN [started(starting) EXCEPT !.chunk = output]
                  ELSE [gm EXCEPT !.chunk = output]
    /\ UNCHANGED <<dbVars, ms, schedVars, cfgVars, sp, procVars, dbFaults, rg>>

\* startEngine's timer: 10 s without readiness; nothing is killed, startEngine
\* rejects
startEngine_timeout_nokill ==
    /\ gm.pcg \in {"hs1", "hs2"}
    /\ gm' = GameError(startError("timeout"))
    /\ UNCHANGED <<dbVars, ms, schedVars, cfgVars, sp, procVars, dbFaults, rg>>

\* startEngine's timer: 10 s without readiness; the process is killed and
\* startEngine rejects
startEngine_timeout ==
    /\ gm.pcg \in {"hs1", "hs2"}
    /\ gm' = [GameError(startError("timeout")) EXCEPT
                 !.proc1 = IF starting = 1 THEN procAfterStart("timeout") ELSE @,
                 !.proc2 = IF starting = 2 THEN procAfterStart("timeout") ELSE @]
    /\ UNCHANGED <<dbVars, ms, schedVars, cfgVars, sp, procVars, dbFaults, rg>>

\* startEngine's exit handler: the engine exits before it is ready
startEngine_exit ==
    /\ gm.pcg \in {"hs1", "hs2"}
    /\ gm' = [GameError(startError("exit")) EXCEPT
                 !.proc1 = IF starting = 1 THEN procAfterStart("exit") ELSE @,
                 !.proc2 = IF starting = 2 THEN procAfterStart("exit") ELSE @]
    /\ UNCHANGED <<dbVars, ms, schedVars, cfgVars, sp, procVars, dbFaults, rg>>

\* runEngineGame: the while test with the cap left out
runEngineGame_loop_uncapped ==
    /\ gm.pcg = "loop"
    /\ IF gm.gameStatus.inProgress
       THEN /\ gm.moveCount - gm.prefix < MaxPlies
            /\ gm' = [gm EXCEPT !.pcg = "go", !.outstanding = @ + 1,
                        !.mover = currentEngine(gm.gameStatus.playerToMove, gm.engine1Color)]
       ELSE gm' = GameOver(translateResult(gm.gameStatus, gm.engine1Color))
    /\ UNCHANGED <<dbVars, ms, schedVars, cfgVars, sp, procVars, dbFaults, rg>>

\* runEngineGame: the while test; `go` is written to the engine to move, or the
\* loop ends and the final status is translated
runEngineGame_loop ==
    /\ gm.pcg = "loop"
    /\ IF gm.gameStatus.inProgress /\ gm.moveCount < maxMoves
       THEN /\ gm.moveCount - gm.prefix < MaxPlies
            /\ gm' = [gm EXCEPT !.pcg = "go", !.outstanding = @ + 1,
                        !.mover = currentEngine(gm.gameStatus.playerToMove, gm.engine1Color)]
       ELSE gm' = GameOver(translateResult(gm.gameStatus, gm.engine1Color))
    /\ UNCHANGED <<dbVars, ms, schedVars, cfgVars, sp, procVars, dbFaults, rg>>

\* getEngineMove not awaited: runEngineGame goes on while the `go` request is
\* still waiting for its answer
getEngineMove_bestmove_unawaited ==
    /\ gm.pcg = "go"
    /\ gm' = [gm EXCEPT !.pcg = "status", !.moves = @ + 1]
    /\ UNCHANGED <<dbVars, ms, schedVars, cfgVars, sp, procVars, dbFaults, rg>>

\* getEngineMove: a chunk with a bestmove line arrived; the move is sent to
\* both engines and `status` is written to engine1
getEngineMove_bestmove ==
    /\ gm.pcg = "go"
    /\ (IF gm.mover = 1 THEN gm.proc1 ELSE gm.proc2) = "alive"
    /\ \E reply \in MoveReplies :
         /\ getEngineMove(reply)
         /\ gm' = [gm EXCEPT !.pcg = "status", !.moves = @ + 1, !.chunk = reply,
                             !.outstanding = @ - 1]
    /\ UNCHANGED <<dbVars, ms, schedVars, cfgVars, sp, procVars, dbFaults, rg>>

\* getEngineMove: no bestmove within 30 s; the game is given as drawn
getEngineMove_timeout_draw ==
    /\ gm.pcg = "go"
    /\ gm' = [GameOver("draw") EXCEPT !.outstanding = @ - 1]
    /\ UNCHANGED <<dbVars, ms, schedVars, cfgVars, sp, procVars, dbFaults, rg>>

\* getEngineMove: no bestmove within 30 s; null is returned and runEngineGame throws
getEngineMove_timeout ==
    /\ gm.pcg = "go"
    /\ gm' = [GameError("failed to provide a move") EXCEPT !.outstanding = @ - 1]
    /\ UNCHANGED <<dbVars, ms, schedVars, cfgVars, sp, procVars, dbFaults, rg>>

\* getGameStatus returned; moveCount++
getGameStatus_return ==
    /\ gm.pcg = "status"
    /\ \E reply \in StatusReplies :
         /\ reply # <<>> => gm.proc1 = "alive"
         /\ gm' = [gm EXCEPT !.pcg = "loop", !.gameStatus = getGameStatus(reply),
                             !.moveCount = @ + 1, !.chunk = reply]
    /\ UNCHANGED <<dbVars, ms, schedVars, cfgVars, sp, procVars, dbFaults, rg>>

\* an engine process exits on its own in the middle of the game
engineExit ==
    /\ gm.pcg \in {"loop", "go", "status"}
    /\ \/ gm.proc1 = "alive" /\ gm' = [gm EXCEPT !.proc1 = "dead"]
       \/ gm.proc2 = "alive" /\ gm' = [gm EXCEPT !.proc2 = "dead"]
    /\ UNCHANGED <<dbVars, ms, schedVars, cfgVars, sp, procVars, dbFaults, rg>>

\* ------------------------------------------------------------- pair counts
\* getPairGameCounts: the rows of SELECT ... GROUP BY engine1_id, engine2_id,
\* one per ordered pair with at least one game row
pairGroups == {<<games[i].engine1_id, games[i].engine2_id>> : i \in DOMAIN games}

\* COUNT(*) of the group (engine1_id, engine2_id) = (a, b)
game_count(a, b) ==
    Cardinality({i \in DOMAIN games : games[i].engine1_id = a /\ games[i].engine2_id = b})

\* the orders in which the query may return its rows (no ORDER BY)
rowOrders ==
    {rows \in [1..Cardinality(pairGroups) -> pairGroups] :
        \A i, j \in DOMAIN rows : i # j => rows[i] # rows[j]}

RECURSIVE pairCountsAfter(_, _)
\* result.rows.forEach: each row sets the keys 'e1-e2' and 'e2-e1' to its count
pairCountsAfter(rows, pairCounts) ==
    IF rows = <<>> THEN pairCounts
    ELSE LET row == Head(rows)
             c == game_count(row[1], row[2])
             set1 == [k \in DOMAIN pairCounts \cup {<<row[1], row[2]>>} |->
                        IF k = <<row[1], row[2]>> THEN c ELSE pairCounts[k]]
             set2 == [k \in DOMAIN set1 \cup {<<row[2], row[1]>>} |->
                        IF k = <<row[2], row[1]>> THEN c ELSE set1[k]]
         IN pairCountsAfter(Tail(rows), set2)

\* getPairGameCounts: the map returned for one order of the rows
getPairGameCounts(rows) == pairCountsAfter(rows, <<>>)

\* ------------------------------------------------------ selectOptimalPairing
\* One call of selectOptimalPairing(engines, tournamentConfig). Weights are
\* kept in millionths (Micro = 1.0), divisions rounded down.
Micro == 10^6
TopCandidates == 5

Min(a, b) == IF a < b THEN a ELSE b
Max(a, b) == IF a > b THEN a ELSE b

RECURSIVE Sum(_)
\* reduce((a, b) => a + b, 0)
Sum(seq) == IF seq = <<>> THEN 0 ELSE Head(seq) + Sum(Tail(seq))

NoSelection ==
    [pcs |-> "off", engines |-> <<>>, recent |-> 0, pairCounts |-> <<>>,
     matchSets |-> <<>>, defaultMatchSet |-> "none", matchSet |-> <<>>,
     pairings |-> <<>>, random |-> 0, result |-> <<>>]

\* the match set selectOptimalPairing makes up when none is configured
StandardMatchSet ==
    [name |-> "Standard", startingPositions |-> <<[moves |-> <<>>]>>,
     gamesPerPosition |-> 2]

\* the match set choice that never looks at defaultMatchSet
chooseMatchSet_first(matchSets, defaultMatchSetName) ==
    IF Len(matchSets) > 0 THEN matchSets[1] ELSE StandardMatchSet

\* selectOptimalPairing: the match set named by defaultMatchSet, else the first
\* configured one, else the made-up one
chooseMatchSet(matchSets, defaultMatchSetName) ==
    IF Len(matchSets) > 0
    THEN IF defaultMatchSetName # "none"
            /\ \E k \in DOMAIN matchSets : matchSets[k].name = defaultMatchSetName
         THEN LET k == CHOOSE i \in DOMAIN matchSets :
                          /\ matchSets[i].name = defaultMatchSetName
                          /\ \A j \in DOMAIN matchSets :
                                matchSets[j].name = defaultMatchSetName => i <= j
              IN matchSets[k]
         ELSE matchSets[1]
    ELSE StandardMatchSet

\* the rating changes calculateUncertainty sees in an engine's recent games:
\* engine1_rating_after is written by no statement, so each is
\* |rating_before - rating_before|
ratingChanges(recent) == [k \in 1..Min(recent, 10) |-> 0]

\* calculateUncertainty(engine, recentGames)
calculateUncertainty(games_played, recent) ==
    LET baseUncertainty == Max(Micro \div 10, Micro - games_played * (Micro \div 100))
    IN IF recent >= 2
       THEN LET avgChange == (Sum(ratingChanges(recent)) * (Micro \div 100)) \div Len(ratingChanges(recent))
                volatility == Min(Micro \div 2, avgChange)
            IN Min(Micro, baseUncertainty + volatility)
       ELSE baseUncertainty

\* 1 / (1 + ratingDiff / 200)
ratingProximity(rating1, rating2) ==
    (200 * Micro) \div (200 + (IF rating1 > rating2 THEN rating1 - rating2 ELSE rating2 - rating1))

\* min(1, avgRating / 2000)
ratingPreference(rating1, rating2) == Min(Micro, (rating1 + rating2) * (Micro \div 4000))

\* the frequency factor without its floor of 0.1
gameFrequency_unfloored(gameCount) == Micro - gameCount * (Micro \div 50)

\* max(0.1, 1 - gameCount / 50)
gameFrequency(gameCount) == Max(Micro \div 10, Micro - gameCount * (Micro \div 50))

\* pairCounts.get(pairKey) || 0
pairCount(pairCounts, id1, id2) ==
    IF <<id1, id2>> \in DOMAIN pairCounts THEN pairCounts[<<id1, id2>>] ELSE 0

\* the combined weight of the pair (engine1, engine2)
weight(engine1, engine2, recent, pairCounts) ==
    LET uncertaintyWeight ==
            (calculateUncertainty(engine1.games_played, recent)
             + calculateUncertainty(engine2.games_played, recent)) \div 2
    IN (4 * uncertaintyWeight
        + 3 * ratingProximity(engine1.rating, engine2.rating)
        + 2 * ratingPreference(engine1.rating, engine2.rating)
        + gameFrequency(pairCount(pairCounts, engine1.id, engine2.id))) \div 10

\* the index pairs of "for i, for j = i + 1", in the order of the two loops
pairIndices(n) ==
    LET P == {p \in (1..n) \X (1..n) : p[1] < p[2]}
        before(p, q) == p[1] < q[1] \/ (p[1] = q[1] /\ p[2] < q[2])
    IN [k \in 1..Cardinality(P) |->
          CHOOSE p \in P : Cardinality({q \in P : before(q, p)}) = k - 1]

\* the pairings array filled by the two loops
allPairings(engs, recent, pairCounts) ==
    LET idx == pairIndices(Len(engs))
    IN [k \in DOMAIN idx |->
          [engines |-> <<engs[idx[k][1]].id, engs[idx[k][2]].id>>,
           weight |-> weight(engs[idx[k][1]], engs[idx[k][2]], recent, pairCounts)]]

\* pairings.sort((a, b) => b.weight - a.weight): by falling weight, equal
\* weights in their order of enumeration (the sort is stable)
sortByWeight(ps) ==
    LET ahead(m, k) == ps[m].weight > ps[k].weight
                       \/ (ps[m].weight = ps[k].weight /\ m < k)
    IN [r \in DOMAIN ps |->
          ps[CHOOSE k \in DOMAIN ps :
                Cardinality({m \in DOMAIN ps : ahead(m, k)}) = r - 1]]

\* the candidates with no slice taken
topCandidates_all(sorted) == sorted

\* pairings.slice(0, Math.min(5, pairings.length))
topCandidates(sorted) == SubSeq(sorted, 1, Min(TopCandidates, Len(sorted)))

\* the weighted draw: random = Math.random() * totalWeight with Math.random()
\* = r / RandomSteps; the first candidate at which random - (sum of the
\* weights so far) <= 0, and the first candidate if there is none
drawn(top, r) ==
    LET totalWeight == Sum([k \in DOMAIN top |-> top[k].weight])
        cum(k) == Sum([m \in 1..k |-> top[m].weight])
        hits == {k \in DOMAIN top : r * totalWeight <= cum(k) * RandomSteps}
    IN IF hits # {} THEN top[CHOOSE k \in hits : \A m \in hits : k <= m]
       ELSE top[1]

\* the inputs of a call: the rows of the engines array
PairingRows ==
    {[rating |-> 1500, games_played |-> 0],
     [rating |-> 1800, games_played |-> 40],
     [rating |-> 0,    games_played |-> 200]}

\* the inputs of a call: the map of getPairGameCounts, as the games between
\* engines 1 and 2 and the games between every other pair
PairCountInputs == {<<0, 0>>, <<60, 0>>, <<10, 25>>, <<60, 60>>}

pairCountsOf(n, c) ==
    [p \in {q \in (1..n) \X (1..n) : q[1] # q[2] /\ (IF q \in {<<1, 2>>, <<2, 1>>}
                                                     THEN c[1] ELSE c[2]) > 0} |->
       IF p \in {<<1, 2>>, <<2, 1>>} THEN c[1] ELSE c[2]]

\* the inputs of a call: tournament.matchSets, the k-th with k starting
\* positions of one prefix move
MatchSetNames == {"a", "b"}
configuredMatchSet(name, k) ==
    [name |-> name, startingPositions |-> [i \in 1..k |-> [moves |-> <<"m">>]],
     gamesPerPosition |-> 2]
MatchSetInputs ==
    UNION {{[k \in 1..len |-> configuredMatchSet(names[k], k)] :
              names \in [1..len -> MatchSetNames]} : len \in 0..MaxConfigured}

\* selectOptimalPairing: engines.length < 2 returns null; else the recent
\* games and the pair counts are fetched and the match set is chosen
selectOptimalPairing_matchSet ==
    /\ sp.pcs = "matchSet"
    /\ sp' = IF Len(sp.engines) < 2
             THEN [sp EXCEPT !.pcs = "done", !.result = <<>>]
             ELSE [sp EXCEPT !.pcs = "weights",
                             !.matchSet = chooseMatchSet(sp.matchSets, sp.defaultMatchSet)]
    /\ UNCHANGED <<dbVars, ms, schedVars, cfgVars, procVars, dbFaults, gm, rg>>

\* selectOptimalPairing: the weights of all pairs are computed
selectOptimalPairing_weights ==
    /\ sp.pcs = "weights"
    /\ LET ps == allPairings(sp.engines, sp.recent, sp.pairCounts)
       IN sp' = IF Len(ps) = 0
                THEN [sp EXCEPT !.pcs = "done", !.result = <<>>]
                ELSE [sp EXCEPT !.pcs = "select", !.pairings = ps]
    /\ UNCHANGED <<dbVars, ms, schedVars, cfgVars, procVars, dbFaults, gm, rg>>

\* selectOptimalPairing: sort, slice and draw; with a total weight of 0 any
\* pairing is returned
selectOptimalPairing_select ==
    /\ sp.pcs = "select"
    /\ LET top == topCandidates(sortByWeight(sp.pairings))
           totalWeight == Sum([k \in DOMAIN top |-> top[k].weight])
       IN IF totalWeight = 0 \/ Len(top) = 0
          THEN \E randomIndex \in DOMAIN sp.pairings :
                  sp' = [sp EXCEPT !.pcs = "done",
                                   !.result = sp.pairings[randomIndex].engines]
          ELSE \E r \in 0..(RandomSteps - 1) :
                  sp' = [sp EXCEPT !.pcs = "done", !.random = r,
                                   !.result = drawn(top, r).engines]
    /\ UNCHANGED <<dbVars, ms, schedVars, cfgVars, procVars, dbFaults, gm, rg>>

\* ----------------------------------------------------------- specifications
NoGame ==
    [pcg |-> "off", engine1Color |-> "white", prefix |-> 0, proc1 |-> "none",
     proc2 |-> "none", tracked |-> FALSE, gameStatus |-> InitialStatus,
     moveCount |-> 0, moves |-> 0, mover |-> 0, result |-> "none",
     error |-> "none", options |-> 0, written |-> <<<<>>, <<>>>>,
     isReady |-> <<FALSE, FALSE>>, chunk |-> <<>>, outstanding |-> 0]
NoStats == [totalGames |-> 0, wins |-> 0, draws |-> 0, errors |-> 0]

\* The continuous tournament: runTournament has registered its handlers and
\* waits in its first selectOptimalPairing; every engine at the default rating.
Init ==
    /\ engines = [e \in EngineIds |-> EngineRow(DefaultRating)]
    /\ games = <<>>
    /\ ms = [t \in TaskIds |-> IdleTask]
    /\ pc = "select1"
    /\ shouldContinue = TRUE
    /\ runningGames = {}
    /\ sweep = {}
    /\ concurrency \in 1..MaxConcurrency
    /\ numPositions \in 1..MaxPositions
    /\ poolEnding = FALSE
    /\ exited = FALSE
    /\ stats = NoStats
    /\ dbFaults = 0
    /\ sp = NoSelection
    /\ gm = NoGame
    /\ rg = NoCall

TaskStep(t, outcomes) ==
    \/ playGame(t, outcomes)
    \/ playMatchSet_return(t)
    \/ playMatchSet_catch(t)
    \/ recordMatchSetResult_begin(t)
    \/ recordMatchSetResult_game(t)
    \/ recordMatchSetResult_select1(t)
    \/ recordMatchSetResult_select2(t)
    \/ recordMatchSetResult_update1(t)
    \/ recordMatchSetResult_update2(t)
    \/ recordMatchSetResult_commit(t)
    \/ recordMatchSetResult_catch(t)
    \/ gamePromise_return(t)

Next ==
    \/ runTournament_sweep
    \/ selectOptimalPairing_counts
    \/ runTournament_start
    \/ runTournament_sleep
    \/ runTournament_drain
    \/ signal
    \/ processExit
    \/ \E t \in TaskIds : TaskStep(t, {out \in GameOutcomes : out.status.player1Result # "loss"})

Spec == Init /\ [][Next]_vars

\* One match set played and recorded on its own (playMatchSet followed by
\* recordMatchSetResult), for any pairing and any initial ratings.
InitialRatings == {1000, 1400, 1500, 1800}

InitMatchSet ==
    /\ engines \in [EngineIds -> {EngineRow(r) : r \in InitialRatings}]
    /\ games = <<>>
    /\ \E p \in pairings :
         ms = [t \in TaskIds |-> IF t = 1 THEN StartedTask(p[1], p[2]) ELSE IdleTask]
    /\ pc = "off"
    /\ shouldContinue = TRUE
    /\ runningGames = {}
    /\ sweep = {}
    /\ concurrency = 1
    /\ numPositions \in 1..MaxPositions
    /\ poolEnding = FALSE
    /\ exited = FALSE
    /\ stats = NoStats
    /\ dbFaults = 0
    /\ sp = NoSelection
    /\ gm = NoGame
    /\ rg = NoCall

NextMatchSet == \E t \in TaskIds : TaskStep(t, GameOutcomes)

SpecMatchSet == InitMatchSet /\ [][NextMatchSet]_vars

\* One game (playGame), for either color of engine1 and a starting position
\* with no moves, one move, or so many that the move cap is one move away.
StartingMoves == {0, 1, maxMoves - 1, maxMoves + 1}

InitGame ==
    /\ engines = [e \in EngineIds |-> EngineRow(DefaultRating)]
    /\ games = <<>>
    /\ ms = [t \in TaskIds |-> IdleTask]
    /\ pc = "off"
    /\ shouldContinue = TRUE
    /\ runningGames = {}
    /\ sweep = {}
    /\ concurrency = 1
    /\ numPositions = 1
    /\ poolEnding = FALSE
    /\ exited = FALSE
    /\ stats = NoStats
    /\ dbFaults = 0
    /\ sp = NoSelection
    /\ \E c \in Colors, n \in StartingMoves, o \in {0, MaxOptions} :
         gm = [NoGame EXCEPT !.pcg = "start1", !.engine1Color = c, !.prefix = n,
                             !.options = o]
    /\ rg = NoCall

NextGame ==
    \/ startEngine1
    \/ startEngine2
    \/ startEngine_onData
    \/ startEngine_timeout
    \/ startEngine_exit
    \/ runEngineGame_loop
    \/ getEngineMove_bestmove
    \/ getEngineMove_timeout
    \/ getGameStatus_return
    \/ engineExit

SpecGame == InitGame /\ [][NextGame]_vars

\* One call of recordGameResult with any game result, ids that may be in no
\* row of engines, and either value of shouldUpdateRatings.
InitRecordGame ==
    /\ engines \in [EngineIds -> {EngineRow(r) : r \in InitialRatings}]
    /\ games = <<>>
    /\ ms = [t \in TaskIds |-> IdleTask]
    /\ pc = "off"
    /\ shouldContinue = TRUE
    /\ runningGames = {}
    /\ sweep = {}
    /\ concurrency = 1
    /\ numPositions = 1
    /\ poolEnding = FALSE
    /\ exited = FALSE
    /\ stats = NoStats
    /\ dbFaults = 0
    /\ sp = NoSelection
    /\ gm = NoGame
    /\ \E e1 \in CallIds, e2 \in CallIds, r \in {"win", "loss", "draw", "error"},
          c \in Colors, u \in BOOLEAN :
         rg = NewCall(GameResult(e1, e2, r, c, 0), u)

NextRecordGame ==
    \/ recordGameResult_select
    \/ recordGameResult_insert
    \/ updateRatings_ratings
    \/ updateRatings_counters

SpecRecordGame == InitRecordGame /\ [][NextRecordGame]_vars

\* The operations that write the database, interleaved: one match set over one
\* position played (each game won by player 1 or ended as 'error') and
\* recorded, one play-game command, and load-config --replace.
InitOps ==
    /\ engines = [e \in EngineIds |-> EngineRow(DefaultRating)]
    /\ games = <<>>
    /\ \E p \in pairings :
         ms = [t \in TaskIds |-> IF t = 1 THEN StartedTask(p[1], p[2]) ELSE IdleTask]
    /\ pc = "off"
    /\ shouldContinue = TRUE
    /\ runningGames = {}
    /\ sweep = {}
    /\ concurrency = 1
    /\ numPositions = 1
    /\ poolEnding = FALSE
    /\ exited = FALSE
    /\ stats = NoStats
    /\ dbFaults = 0
    /\ sp = NoSelection
    /\ gm = NoGame
    /\ rg = NoCall

NextOps ==
    \/ \E t \in TaskIds :
         TaskStep(t, {out \in GameOutcomes : out.threw \/ out.status.player1Result = "win"})
    \/ playGame_command
    \/ NextRecordGame
    \/ loadEnginesFromConfig_replace

SpecOps == InitOps /\ [][NextOps]_vars

\* One call of selectOptimalPairing on an engines array, a pair-count map and a
\* tournament configuration drawn from the inputs above (the configuration is
\* varied with the arrays of one and two engines).
InitPairing ==
    /\ engines = [e \in EngineIds |-> EngineRow(DefaultRating)]
    /\ games = <<>>
    /\ ms = [t \in TaskIds |-> IdleTask]
    /\ pc = "off"
    /\ shouldContinue = TRUE
    /\ runningGames = {}
    /\ sweep = {}
    /\ concurrency = 1
    /\ numPositions = 1
    /\ poolEnding = FALSE
    /\ exited = FALSE
    /\ stats = NoStats
    /\ dbFaults = 0
    /\ gm = NoGame
    /\ rg = NoCall
    /\ \E n \in {1, 2, MaxPairingEngines}, c \in PairCountInputs, recent \in {0, 3},
          matchSets \in MatchSetInputs, d \in MatchSetNames \cup {"none", "c"} :
         \E rows \in [1..n -> PairingRows] :
            /\ n > 2 => matchSets = <<>> /\ d = "none"
            /\ sp = [NoSelection EXCEPT
                       !.pcs = "matchSet",
                       !.engines = [i \in 1..n |-> [id |-> i, rating |-> rows[i].rating,
                                                    games_played |-> rows[i].games_played]],
                       !.recent = recent,
                       !.pairCounts = pairCountsOf(n, c),
                       !.matchSets = matchSets, !.defaultMatchSet = d]

NextPairing ==
    \/ selectOptimalPairing_matchSet
    \/ selectOptimalPairing_weights
    \/ selectOptimalPairing_select

SpecPairing == InitPairing /\ [][NextPairing]_vars

\* Two match-set tasks in flight at once (concurrency 2) on pairings that
\* share an engine, each played and recorded; every engine starts at the
\* default rating addEngine gives it.
InitConcurrent ==
    /\ engines = [e \in EngineIds |-> EngineRow(DefaultRating)]
    /\ games = <<>>
    /\ \E p \in pairings, q \in pairings :
         /\ {p[1], p[2]} \cap {q[1], q[2]} # {}
         /\ ms = [t \in TaskIds |-> IF t = 1 THEN StartedTask(p[1], p[2])
                                    ELSE IF t = 2 THEN StartedTask(q[1], q[2])
                                    ELSE IdleTask]
    /\ pc = "off"
    /\ shouldContinue = TRUE
    /\ runningGames = {1, 2}
    /\ sweep = {}
    /\ concurrency = 2
    /\ numPositions = 1
    /\ poolEnding = FALSE
    /\ exited = FALSE
    /\ stats = NoStats
    /\ dbFaults = 0
    /\ sp = NoSelection
    /\ gm = NoGame
    /\ rg = NoCall

NextConcurrent == \E t \in TaskIds : TaskStep(t, GameOutcomes)

SpecConcurrent == InitConcurrent /\ [][NextConcurrent]_vars

\* ------------------------------------------------------------------ claims
Recording == {"insert", "select2", "update1", "update2", "commit"}
NonError(gs) == Count(gs, {"win", "loss", "draw"})

\* C1: at no instant does the number of in-flight match sets (started and not
\* yet finished playing and recording) exceed the concurrency C.
C1_ConcurrencyCap ==
    Cardinality({t \in TaskIds : InFlight(t)}) <= concurrency

\* C2: if recording a match set fails at any step, so that its transaction is
\* rolled back, then no game row of that match set is observable and neither
\* engine's rating has changed.
C2_RollbackLeavesNothing ==
    [][\A t \in TaskIds :
          (ms[t].phase \in Recording /\ ms'[t].phase = "done" /\ ~ms'[t].recorded)
          => /\ \A i \in DOMAIN games' : games'[i].task # t
             /\ engines'[ms[t].engine1Id].rating = ms[t].begin1
             /\ engines'[ms[t].engine2Id].rating = ms[t].begin2]_vars

\* C3: once a shutdown signal has been received during runTournament, no
\* further match set is started.
C3_NoStartAfterSignal ==
    [][poolEnding => \A t \in TaskIds :
                        ms[t].phase = "idle" => ms'[t].phase = "idle"]_vars

\* C4: after a shutdown signal the tournament terminates (runTournament returns,
\* the process exits) only after every match set that was started has finished
\* playing and has been recorded; none is abandoned.
C4_DrainBeforeTermination ==
    (exited \/ pc = "returned") => \A t \in TaskIds : ms[t].phase \in {"idle", "done"}

\* C5: on every exit path of a game, every engine process spawned for it has
\* been terminated when the game's result is returned.
C5_NoProcessOutlivesGame ==
    gm.pcg = "done" => gm.proc1 # "alive" /\ gm.proc2 # "alive"

\* C6: the result of a finished game is stated from engine1's perspective under
\* the color assignment: with engine1 white, player 1 winning is 'win' and
\* player 2 winning is 'loss'; with engine1 black, player 1 winning is 'loss'
\* and player 2 winning is 'win'.
C6_ResultFromEngine1Perspective ==
    (gm.pcg = "done" /\ gm.result # "error" /\ ~gm.gameStatus.inProgress)
    => LET p1 == gm.gameStatus.player1Result = "win"
           p2 == gm.gameStatus.player2Result = "win" /\ ~p1
       IN /\ (gm.engine1Color = "white" /\ p1) => gm.result = "win"
          /\ (gm.engine1Color = "white" /\ p2) => gm.result = "loss"
          /\ (gm.engine1Color = "black" /\ p1) => gm.result = "loss"
          /\ (gm.engine1Color = "black" /\ p2) => gm.result = "win"

\* C7: a match set played to the end has exactly two games per starting
\* position, in position order, the first with engine1 white and the second
\* with engine1 black; each engine is white |positions| times and black
\* |positions| times, and the engines never share a color in a game.
WhiteGames1(gs) == Cardinality({i \in DOMAIN gs : gs[i].engine1Color = "white"})
WhiteGames2(gs) == Cardinality({i \in DOMAIN gs : gs[i].engine2Color = "white"})
C8_DenominatorIsNonErrorGames ==
    [][\A t \in TaskIds :
          (ms[t].phase = "commit" /\ ms'[t].recorded /\ NonError(ms[t].games) > 0)
          => LET r1 == ms[t].engine1Rating
                 r2 == ms[t].engine2Rating
                 n  == NonError(ms[t].games)
             IN /\ engines'[ms[t].engine1Id].rating =
                     r1 + ratingChange(ms[t].engine1Score, n, expectedScore1(r1, r2))
                /\ engines'[ms[t].engine2Id].rating =
                     r2 + ratingChange(ms[t].engine2Score, n, expectedScore2(r1, r2))]_vars

\* C9: recording a match-set result with no non-error game (N = 0, the empty
\* games list included) commits successfully and leaves both ratings unchanged.
C9_NoGamesNoChange ==
    [][\A t \in TaskIds :
          (/\ ms[t].phase \in Recording /\ NonError(ms[t].games) = 0
           /\ ms'[t].phase \in {"refresh", "done"} /\ dbFaults' = dbFaults)
          => ms'[t].recorded /\ engines' = engines]_vars

\* C10: after a match set with N non-error games has been recorded, each
\* engine's games_played has increased by N and its wins, losses and draws by
\* the games it won, lost and drew in that match set.
C10_CountersUpdated ==
    [][\A t \in TaskIds :
          (ms[t].phase = "commit" /\ ms'[t].recorded)
          => LET gs == ms[t].games
                 e1 == ms[t].engine1Id
                 e2 == ms[t].engine2Id
             IN /\ engines'[e1].games_played = engines[e1].games_played + NonError(gs)
                /\ engines'[e2].games_played = engines[e2].games_played + NonError(gs)
                /\ engines'[e1].wins = engines[e1].wins + Count(gs, {"win"})
                /\ engines'[e2].wins = engines[e2].wins + Count(gs, {"loss"})
                /\ engines'[e1].losses = engines[e1].losses + Count(gs, {"loss"})
                /\ engines'[e2].losses = engines[e2].losses + Count(gs, {"win"})
                /\ engines'[e1].draws = engines[e1].draws + Count(gs, {"draw"})
                /\ engines'[e2].draws = engines[e2].draws + Count(gs, {"draw"})]_vars

Abs(x) == IF x < 0 THEN -x ELSE x
Computed == {"update1", "update2", "commit", "refresh"}

\* C11: for any recorded match set with at least one non-error game, error
\* games included, the two rating changes satisfy |dR1 + dR2| <= 1.
C11_RatingConservation ==
    [][\A t \in TaskIds :
          (ms[t].phase = "commit" /\ ms'[t].recorded /\ NonError(ms[t].games) > 0)
          => Abs((engines'[ms[t].engine1Id].rating - ms[t].engine1Rating)
                 + (engines'[ms[t].engine2Id].rating - ms[t].engine2Rating)) <= 1]_vars

\* C12: for any single match set and any pair of ratings, each engine's rating
\* change satisfies |dR_i| <= K.
C12_BoundedChange ==
    [][\A t \in TaskIds :
          (ms[t].phase = "commit" /\ ms'[t].recorded)
          => /\ Abs(engines'[ms[t].engine1Id].rating - ms[t].engine1Rating) <= K
             /\ Abs(engines'[ms[t].engine2Id].rating - ms[t].engine2Rating) <= K]_vars

\* C12 witness: a match set was recorded and moved a rating by exactly K
C12_Witness ==
    \E t \in TaskIds :
       /\ ms[t].phase = "refresh" /\ ms[t].recorded
       /\ Abs(engines[ms[t].engine1Id].rating - ms[t].engine1Rating) = K

\* C13: the match-set rating update is symmetric: with the two engines
\* swapped (ratings and scores swapped) the changes are (dR2, dR1).
C13_Symmetry ==
    \A t \in TaskIds :
       (ms[t].phase \in Computed /\ ~ms[t].isNaN)
       => LET r1 == ms[t].engine1Rating
              r2 == ms[t].engine2Rating
              n  == ms[t].totalGames
              swapped1 == ratingChange(ms[t].engine2Score, n, expectedScore1(r2, r1))
              swapped2 == ratingChange(ms[t].engine1Score, n, expectedScore2(r2, r1))
          IN /\ swapped1 = ms[t].newRating2 - r2
             /\ swapped2 = ms[t].newRating1 - r1

\* C13 witness: new ratings were computed for engines of different ratings
\* and different scores
C13_Witness ==
    \E t \in TaskIds :
       /\ ms[t].phase = "update1" /\ ~ms[t].isNaN
       /\ ms[t].engine1Rating # ms[t].engine2Rating
       /\ ms[t].engine1Score # ms[t].engine2Score
       /\ ms[t].newRating1 # ms[t].engine1Rating

\* C14: a MatchSetResult has completed = true only if every scheduled game
\* was played and produced a non-error result.
C14_CompletedMeansNoError ==
    \A t \in TaskIds :
       ms[t].completed
       => /\ Len(ms[t].games) = 2 * numPositions
          /\ Count(ms[t].games, {"error"}) = 0

\* C15: for every MatchSetResult of playMatchSet, engine1Score + engine2Score
\* = totalGames (scores are kept doubled here).
C15_ScoresSumToTotal ==
    \A t \in TaskIds :
       ms[t].phase = "connect"
       => ms[t].engine1Score + ms[t].engine2Score = 2 * ms[t].totalGames

\* C16: every pairing chosen by the scheduler has two different engines.
C16_PairNonSelf ==
    \A t \in TaskIds :
       ms[t].phase \notin {"idle", "done"} => ms[t].engine1Id # ms[t].engine2Id

\* C16 witness: the scheduler chose a pairing and started its match set
C16_Witness ==
    \E t \in TaskIds : ms[t].phase = "play" /\ t \in runningGames /\ ms[t].engine1Id \in EngineIds

\* C17: across any sequence of operations the number of rows in games never
\* decreases and no existing game row is modified.
C17_AppendOnlyGames ==
    [][/\ Len(games') >= Len(games)
       /\ \A i \in DOMAIN games : games'[i] = games[i]]_vars

\* C17 witness: after game rows of a match set were inserted its recording
\* failed, and a game was recorded by play-game as well
C17_Witness ==
    /\ \E t \in TaskIds : ms[t].phase = "done" /\ ms[t].failed
    /\ \E i \in DOMAIN games : games[i].task = 1
    /\ \E i \in DOMAIN games : games[i].task = 0

\* C18: a match set changes an engine's rating only after all its games have
\* been played, and once: never while its games are played or its game rows
\* are inserted, only in the step that commits its recording, and only for
\* its two engines.
C18_RatingChangedOnceAfterPlay ==
    [][\A e \in EngineIds :
          engines'[e].rating # engines[e].rating
          => \E t \in TaskIds :
                /\ ms[t].phase = "commit" /\ ~ms[t].recorded /\ ms'[t].recorded
                /\ ms[t].idx > Len(ms[t].games)
                /\ e \in {ms[t].engine1Id, ms[t].engine2Id}]_vars

\* C18 witness: a match set of at least two games was recorded and changed a rating
C18_Witness ==
    \E t \in TaskIds :
       /\ ms[t].phase = "refresh" /\ ms[t].recorded /\ Len(ms[t].games) >= 2
       /\ engines[ms[t].engine1Id].rating # ms[t].begin1

\* C19: recordGameResult for a game one of whose engines does not exist fails
\* with 'One or both engines not found' and leaves the database unchanged: no
\* game row inserted, no rating or counter modified.
C19_MissingEngineFails ==
    (/\ rg.pcr # "idle"
     /\ (rg.game.engine1Id \notin DOMAIN engines \/ rg.game.engine2Id \notin DOMAIN engines))
    => /\ rg.pcr \in {"select", "failed"}
       /\ rg.pcr = "failed" => rg.error = "One or both engines not found"
       /\ engines = rg.before
       /\ Len(games) = rg.rowsBefore

\* C19 witness: a call naming an engine that is in no row has failed
C19_Witness ==
    /\ rg.pcr = "failed"
    /\ rg.game.engine1Id \in DOMAIN engines
    /\ rg.game.engine2Id \notin DOMAIN engines

\* C20: when a single game is recorded with rating updates, the engine credited
\* is the actual winner: for 'win' engine1's wins and engine2's losses grow and
\* engine1's rating does not decrease, for 'loss' engine2's wins and engine1's
\* losses grow and engine2's rating does not decrease, and winner_id is the
\* engine whose wins grew.
C20_WinnerCredited ==
    (/\ rg.pcr = "done" /\ rg.shouldUpdateRatings
     /\ rg.game.result \in {"win", "loss"}
     /\ rg.game.engine1Id # rg.game.engine2Id)
    => LET e1 == rg.game.engine1Id
           e2 == rg.game.engine2Id
           winner == IF rg.game.result = "win" THEN e1 ELSE e2
           loser  == IF rg.game.result = "win" THEN e2 ELSE e1
       IN /\ engines[winner].wins = rg.before[winner].wins + 1
          /\ engines[loser].losses = rg.before[loser].losses + 1
          /\ engines[winner].rating >= rg.before[winner].rating
          /\ engines[games[Len(games)].winner_id].wins
               = rg.before[games[Len(games)].winner_id].wins + 1

\* C21: getPairGameCounts returns, for every unordered pair {a, b} of engines
\* that have played, the same value under the keys 'a-b' and 'b-a', and that
\* value is the number of game rows between a and b in both orientations.
C21_PairCountsBothOrientations ==
    \A rows \in rowOrders :
       \A a \in CallIds, b \in CallIds :
          (a # b /\ game_count(a, b) + game_count(b, a) > 0)
          => LET pairCounts == getPairGameCounts(rows)
             IN /\ <<a, b>> \in DOMAIN pairCounts
                /\ <<b, a>> \in DOMAIN pairCounts
                /\ pairCounts[<<a, b>>] = pairCounts[<<b, a>>]
                /\ pairCounts[<<a, b>>] = game_count(a, b) + game_count(b, a)

\* C22: if an engine process exits unexpectedly in the middle of a game
\* (either session, either color, with a request in flight or not), the game
\* ends with the result 'error', never with 'win', 'loss' or 'draw'. Stated
\* for an engine that is gone while the last status gathered says the game is
\* in progress.
C22_ExitMidGameIsError ==
    [][(/\ gm.pcg \in {"loop", "go", "status"}
        /\ (gm.proc1 = "dead" \/ gm.proc2 = "dead")
        /\ gm.gameStatus.inProgress
        /\ gm'.pcg = "done")
       => gm'.result = "error"]_vars

NoComments(output) == SelectSeq(output, LAMBDA line : ~line.hash)

\* C24: lines beginning with '#' are ignored in every session state and unknown
\* lines are informational: they never complete the handshake, never make the
\* driver write its options and isready, never yield a move and never change
\* the status gathered, even when a comment contains ugiok, readyok or
\* 'info player' / 'info gamestatus'.
C24_CommentsIgnored ==
    [][/\ \A i \in {1, 2} :
            /\ (gm'.isReady[i] /\ ~gm.isReady[i])
                 => includes(NoComments(gm'.chunk), "readyok")
            /\ (gm'.written[i] # gm.written[i] /\ gm.written[i] # <<>>)
                 => includes(NoComments(gm'.chunk), "ugiok")
       /\ (gm.pcg = "go" /\ gm'.pcg = "status")
            => includes(NoComments(gm'.chunk), "bestmove")
       /\ (gm.pcg = "status" /\ gm'.pcg = "loop")
            => gm'.gameStatus = getGameStatus(NoComments(gm'.chunk))]_vars

C27_StatusLineParsed ==
    [][/\ (gm.pcg = "status" /\ gm'.pcg = "loop")
            => \A i \in DOMAIN gm'.chunk :
                  startsWith(gm'.chunk[i], "status")
                  => /\ gm'.gameStatus.inProgress = (gm'.chunk[i].state = "inprogress")
                     /\ gm'.gameStatus.playerToMove = gm'.chunk[i].n
       /\ (/\ gm.pcg = "loop" /\ gm.moves > 0
           /\ \E i \in DOMAIN gm.chunk :
                 startsWith(gm.chunk[i], "status") /\ gm.chunk[i].state = "finished")
            => gm'.pcg # "go"]_vars

\* the engine that plays black
blackEngine == IF gm.engine1Color = "black" THEN 1 ELSE 2

\* C28: every move request, the first one after the prefix moves included, is
\* preceded by a status query to engine1's session (as many status queries
\* as move requests have been made when `go` is written) and goes to the
\* session that owns the color of the reported playerToMove; after an odd
\* number of prefix moves the first `go` goes to the engine playing black.
C28_StatusBeforeEveryMove ==
    gm.pcg = "go"
    => /\ gm.moveCount - gm.prefix = gm.moves + 1
       /\ gm.mover = currentEngine(gm.gameStatus.playerToMove, gm.engine1Color)
       /\ (gm.moves = 0 /\ gm.prefix % 2 = 1) => gm.mover = blackEngine

\* C29: every game terminates: no move is requested once the move count has
\* reached the cap of 500, so at most 500 move requests are made; every status
\* query advances the count by one; a pending move request or status query can
\* always end at its deadline; and when the cap is reached while the status
\* still says in progress the game is returned as a draw.
C29_MoveCap ==
    [][/\ gm'.moves + (IF gm'.pcg = "go" THEN 1 ELSE 0) <= maxMoves
       /\ gm'.pcg = "go" => gm'.moveCount < maxMoves
       /\ (gm.pcg = "status" /\ gm'.pcg # "status")
            => gm'.pcg = "loop" /\ gm'.moveCount = gm.moveCount + 1
       /\ gm.pcg = "go" => ENABLED getEngineMove_timeout
       /\ gm.pcg = "status" => ENABLED getGameStatus_return
       /\ (/\ gm.pcg = "loop" /\ gm.gameStatus.inProgress
           /\ gm.moveCount >= maxMoves /\ gm'.pcg # "loop")
            => gm'.pcg = "done" /\ gm'.result = "draw"]_vars

\* C29 witness: a game that reached the cap with the status in progress, ended
\* as a draw
C29_Witness ==
    /\ gm.pcg = "done" /\ gm.result = "draw"
    /\ gm.gameStatus.inProgress
    /\ gm.moveCount = maxMoves /\ gm.moves > 0

\* C30: if the final status reports 'win' for both players, the result of the
\* game is 'error'.
C30_BothWinIsError ==
    (/\ gm.pcg = "done" /\ ~gm.gameStatus.inProgress
     /\ gm.gameStatus.player1Result = "win"
     /\ gm.gameStatus.player2Result = "win")
    => gm.result = "error"

C32_NoRatingUpdateFrame ==
    (/\ rg.pcr = "done"
     /\ (~rg.shouldUpdateRatings \/ rg.game.result = "error"))
    => /\ engines = rg.before
       /\ Len(games) = rg.rowsBefore + 1
       /\ games[Len(games)] = gameRow(rg.game, rg.before[rg.game.engine1Id].rating,
                                      rg.before[rg.game.engine2Id].rating, 0)

\* C32 witness: a decisive game recorded without rating update
C32_Witness ==
    /\ rg.pcr = "done" /\ ~rg.shouldUpdateRatings
    /\ rg.game.result = "win" /\ rg.game.engine1Id # rg.game.engine2Id
    /\ Len(games) = 1

\* C33: an engine's rating and counters are changed only by the Elo update
\* that accompanies the recording of its games (a step of a recordGameResult
\* call or of a match set's recording); no other operation, in particular
\* loading the configuration for an engine that already exists, changes the
\* rating of an existing engine.
C33_OnlyEloUpdateChangesRatings ==
    [][(\E e \in EngineIds : engines'[e] # engines[e])
       => (rg' # rg \/ ms' # ms)]_vars

\* C34: the match set given to a selected pairing is the configured match set
\* named by tournament.defaultMatchSet when such a match set exists (the first
\* of that name); otherwise the first configured match set; and, when no match
\* set is configured, a synthetic match set with exactly one starting position
\* with an empty move prefix.
C34_MatchSetChoice ==
    sp.pcs \in {"weights", "select"} \/ (sp.pcs = "done" /\ sp.result # <<>>)
    => LET named == {k \in DOMAIN sp.matchSets :
                        sp.matchSets[k].name = sp.defaultMatchSet}
       IN /\ named # {}
               => /\ sp.matchSet \in {sp.matchSets[k] : k \in named}
                  /\ \A k \in named : Len(sp.matchSet.startingPositions) <= k
          /\ (named = {} /\ sp.matchSets # <<>>) => sp.matchSet = sp.matchSets[1]
          /\ sp.matchSets = <<>>
               => /\ Len(sp.matchSet.startingPositions) = 1
                  /\ sp.matchSet.startingPositions[1].moves = <<>>

\* C34 witness: the default match set is the second of two configured ones,
\* and it is the one given to the selected pairing
C34_Witness ==
    /\ sp.pcs = "done" /\ sp.result # <<>>
    /\ Len(sp.matchSets) = 2 /\ sp.defaultMatchSet = "b"
    /\ sp.matchSets[1].name = "a" /\ sp.matchSets[2].name = "b"
    /\ sp.matchSet = sp.matchSets[2]

\* the pairings ranked ahead of the k-th: heavier, or as heavy and enumerated
\* earlier
Ahead(k) ==
    {m \in DOMAIN sp.pairings :
        \/ sp.pairings[m].weight > sp.pairings[k].weight
        \/ (sp.pairings[m].weight = sp.pairings[k].weight /\ m < k)}

C36_RecordingFailureContained ==
    /\ [](pc = "failed" => poolEnding)
    /\ [][\A t \in TaskIds :
            ( /\ ms[t].phase \in {"connect", "insert", "select2", "update1",
                                  "update2", "commit"}
              /\ ms'[t].phase = "done" /\ ms'[t].failed /\ ~ms'[t].recorded )
            => /\ stats'.errors = stats.errors + 1
               /\ stats'.totalGames = stats.totalGames
               /\ ms'[t].phase \notin {"insert", "select2", "update1", "update2",
                                       "commit", "refresh"}
               /\ raceResult(t)' = "value"
               /\ pc' = pc /\ shouldContinue' = shouldContinue
               /\ exited' = exited /\ runningGames' = runningGames
               /\ \A u \in TaskIds \ {t} : ms'[u] = ms[u]]_vars

\* the first match set failed in its recording while the pool was open, and
\* the second one was played and recorded all the same
C36_Witness ==
    /\ ~poolEnding /\ ~exited
    /\ ms[1].phase = "done" /\ ms[1].failed /\ ~ms[1].recorded
    /\ ms[2].phase = "done" /\ ms[2].recorded /\ ~ms[2].failed
    /\ 1 \notin runningGames
    /\ stats.errors >= 1 /\ stats.totalGames > 0

\* C39: the statistics runTournament returns are sums over the match sets
\* that completed and were recorded: recording such a match set adds its
\* number of games to totalGames, its decisive games to wins and its drawn
\* games to draws.
C39_StatsMatchPlayed ==
    [][\A t \in TaskIds :
          (ms[t].phase = "commit" /\ ms'[t].recorded /\ ms[t].completed)
          => LET gs == ms[t].games
             IN /\ stats'.totalGames = stats.totalGames + Len(gs)
                /\ stats'.wins = stats.wins + Count(gs, {"win", "loss"})
                /\ stats'.draws = stats.draws + Count(gs, {"draw"})]_vars

\* C40: the game row recordGameResult inserts names a winner that agrees with
\* the result: engine1 for 'win', engine2 for 'loss', NULL with is_draw for
\* 'draw', and NULL without is_draw for 'error'.
C40_WinnerMatchesResult ==
    [][(rg.pcr = "insert" /\ Len(games') = Len(games) + 1)
       => LET row == games'[Len(games')]
              g   == rg.game
          IN /\ g.result = "win"   => row.winner_id = g.engine1Id /\ ~row.is_draw
             /\ g.result = "loss"  => row.winner_id = g.engine2Id /\ ~row.is_draw
             /\ g.result = "draw"  => row.winner_id = 0 /\ row.is_draw
             /\ g.result = "error" => row.winner_id = 0 /\ ~row.is_draw]_vars

\* the game rows of match set t, and what recordMatchSetResult computes from
\* such a match set on top of the given ratings
rowsOf(t) == SelectSeq(games, LAMBDA row : row.task = t)
RECURSIVE rowScore(_, _)
rowScore(rows, e) ==
    IF rows = <<>> THEN 0
    ELSE (IF Head(rows).error_message THEN 0
          ELSE IF Head(rows).is_draw THEN 1
          ELSE IF Head(rows).winner_id = e THEN 2 ELSE 0) + rowScore(Tail(rows), e)
appliedTo(ratings, t) ==
    LET rows == rowsOf(t)
        e1 == rows[1].engine1_id
        e2 == rows[1].engine2_id
        n  == Len(rows)
    IN [ratings EXCEPT
          ![e1] = ratings[e1] + ratingChange(rowScore(rows, e1), n,
                                             expectedScore1(ratings[e1], ratings[e2])),
          ![e2] = ratings[e2] + ratingChange(rowScore(rows, e2), n,
                                             expectedScore2(ratings[e1], ratings[e2]))]
ratingsNow == [e \in EngineIds |-> engines[e].rating]
ratingsAtStart == [e \in EngineIds |-> DefaultRating]

\* C38: when two match sets that share an engine have both been recorded, with
\* their recordings interleaved in any way, the ratings are those of the two
\* rating changes applied one after the other, in one order or the other.
C38_NoLostUpdate ==
    (\A t \in {1, 2} : ms[t].phase = "done" /\ ms[t].recorded /\ ~ms[t].failed)
    => ratingsNow \in {appliedTo(appliedTo(ratingsAtStart, 1), 2),
                       appliedTo(appliedTo(ratingsAtStart, 2), 1)}
====
